---- MODULE Spec2Model ----
(***************************************************************************)
(* A model of the PIM administration dashboard: the reparent filter of the *)
(* categories page (getAvailableParents / isDescendant), the categories    *)
(* page's modals and mutations, the products and brands list pages, the    *)
(* product detail and edit pages, and the queries the pages read through   *)
(* the query client.                                                       *)
(*                                                                         *)
(* A category list is a function from the ids it holds to the parent id of *)
(* each (0 stands for null/undefined: `!cat.parentCategoryId` is true of   *)
(* it).  Ids are unique in a list, so Array.find by id is the function     *)
(* application and the order of the list is immaterial to the filter.      *)
(***************************************************************************)
EXTENDS Integers, Sequences, FiniteSets, TLC

\* ------------------------------------------------------------------ bounds
NumCat == 3
MaxProducts == 12
MaxLoads == 3
PageSize == 10
MaxTitleLength == 255
StackDepth == 6
MaxMutations == 1
NumImages == 3
NumNodes == 3
MaxImageRequests == 2
MaxPage == 2
MaxAttrRequests == 1

\* --------------------------------------------------------------- variables
VARIABLES
    allCategories,      \* the loaded flat list: id -> parent id (0 = none)
    selectedCategory,   \* NoCat (null) or the selected category [id, parentCategoryId]
    available,          \* the result of the last getAvailableParents call
    walk,               \* the isDescendant call chain in progress
    route,              \* the page that is mounted
    queries,            \* the query client's cache: query key -> entry
    serverCats,         \* the backend's categories: id -> parent id
    treeData,           \* the category tree as last loaded: id -> parent id
    modalMode,          \* 'add' | 'edit' | 'delete' | 'move' | "none" (null)
    parentId,           \* the move modal's parent selection (0 = null)
    formParent,         \* the form's parentCategoryId field (0 = undefined)
    error,              \* the page's error message ("null" when none)
    mutation,           \* the mutation in flight, if any
    mutCount,           \* the mutations the backend has applied
    filters,            \* the products page's filter and pagination state
    searchInput,        \* the products page's search box
    selectedProduct,    \* the products page's selected product id (0 = null)
    selectedBrand,      \* the brands page's selected brand id (0 = null)
    images,             \* edit page: the loaded images of the product, id -> order
    imagesFetch,        \* edit page: "idle", or "fetching" the image list
    serverImages,       \* the backend's images of the product, id -> order
    draggedImageId,     \* edit page: the image being dragged (0 = null)
    imageReqs,          \* the image requests on their way to the backend
    imageSent,          \* the number of image requests sent so far
    imageEvent,         \* the image handler called last, and the target of a drop
    newImageUrl,        \* the URL typed for a new image
    editingImage,       \* the id of the image being edited (0 = null)
    editImageUrl,       \* the URL in the edit field of that image
    categoriesTree,     \* the category tree the backend returned
    categories,         \* products page: flattenCategories(categoriesTree)
    TreeSelect_allCategories,   \* TreeSelect: its flattened categories
    rendered,           \* TreeSelect: the buttons of the tree, in document order
    categoryList,       \* the flat category list a tree is built from
    pageData,           \* the page of a list the backend holds
    pageFromData,       \* the page object made of the {data, total, ...} answer
    pageFromContent,    \* the page object made of the {content, ...} answer
    serverTotal,        \* the number of products the backend holds for the filters
    currentPage,        \* filters.page
    pageCache,          \* page index -> totalElements of the cached answer for that page
    effectFilters,      \* the filters of the products page that loads in an effect
    productLoads,       \* the loadProducts calls in flight: the filters each was called with
    products,           \* the list shown: none, or the answer to the filters it names
    productsLoading,    \* the loading flag of that page
    loading,            \* await-based pages: the list is being loaded
    submitting,         \* await-based pages: a submit handler is running
    asyncPc,            \* where the running submit handler waits
    mountLoad,          \* the load started by the mount effect is in flight
    listData,           \* how the latest list load ended
    refData,            \* how loadInitialData (brands, categories) ended
    paramsId,           \* edit page: the route parameter id
    newAttributeKey,    \* edit page: the key typed for a new attribute
    newAttributeValue,  \* edit page: the value typed for a new attribute
    attrReqs,           \* the create-attribute requests on their way
    attributesFetch,    \* the fetch of ['product-attributes', productId]
    attrCall,           \* the attribute handler called last
    formValues,         \* the values of the edit form's fields
    formErrors          \* formState.errors: the fields that failed the last validation

filterVars == <<allCategories, selectedCategory, available, walk>>
cacheVars == <<route, queries>>
pageVars == <<serverCats, treeData, modalMode, parentId, formParent, error, mutation, mutCount>>
listVars == <<filters, searchInput, selectedProduct, selectedBrand>>
imageVars == <<images, imagesFetch, serverImages, draggedImageId, imageReqs, imageSent,
               imageEvent, newImageUrl, editingImage, editImageUrl>>
imageFormVars == <<newImageUrl, editingImage, editImageUrl>>
treeVars == <<categoriesTree, categories, TreeSelect_allCategories, rendered, categoryList>>
\* The state of the parts taken on their own below.
pagerVars == <<serverTotal, currentPage, pageCache>>
loadVars == <<effectFilters, productLoads, products, productsLoading>>
pagingVars == <<pageData, pageFromData, pageFromContent, pagerVars, loadVars>>
awaitVars == <<loading, submitting, asyncPc, mountLoad, listData, refData>>
formVars == <<formValues, formErrors>>
attrVars == <<paramsId, newAttributeKey, newAttributeValue, attrReqs, attributesFetch, attrCall, formVars>>
\* The state of the parts taken on their own below.
toolVars == <<imageVars, treeVars, pagingVars, awaitVars, attrVars>>
\* The parts other than the image section, other than the trees, ...
imageOthers == <<treeVars, pagingVars, awaitVars, attrVars>>
treeOthers == <<imageVars, pagingVars, awaitVars, attrVars>>
pagingOthers == <<imageVars, treeVars, awaitVars, attrVars>>
attrOthers == <<imageVars, treeVars, pagingVars, awaitVars, filterVars, cacheVars, serverCats,
                treeData, modalMode, parentId, formParent, mutation, mutCount, listVars, formVars>>
attrOthersTools == <<imageVars, treeVars, pagingVars, awaitVars>>
awaitOthers == <<imageVars, treeVars, pagingVars, attrVars, filterVars, cacheVars, serverCats, treeData,
                 parentId, formParent, mutation, mutCount, listVars>>
\* The state of the list pages and the query cache.
appVars == <<filterVars, cacheVars, pageVars, listVars>>
vars == <<appVars, toolVars>>

CatIds == 1..NumCat
\* selectedCategory = null
NoCat == [id |-> 0, parentCategoryId |-> 0]

\* Every list over the ids: any subset, any parent reference (a reference to an
\* id outside the list is an orphan; a chain of references may close a cycle).
CategoryLists == UNION {[S -> 0..NumCat] : S \in SUBSET CatIds}

\* --------------------------------------------------- the reparent filter
\* isDescendant(cat, ancestorId): one JavaScript call per level; the engine
\* throws RangeError when the call stack is exhausted.
\* A variant that looks one level up only (the recursion dropped).
isDescendant_OneLevel(all, cat, ancestorId, depth) ==
    IF cat = ancestorId THEN "true"
    ELSE IF all[cat] = 0 THEN "false"
    ELSE IF all[cat] = ancestorId THEN "true" ELSE "false"

RECURSIVE isDescendant(_, _, _, _)
isDescendant(all, cat, ancestorId, depth) ==
    IF depth > StackDepth THEN "RangeError"
    ELSE IF cat = ancestorId THEN "true"
    ELSE IF all[cat] = 0 THEN "false"
    ELSE IF all[cat] \in DOMAIN all
         THEN isDescendant(all, all[cat], ancestorId, depth + 1)
         ELSE "false"

\* The result of a call: the ids of the categories returned, or the exception
\* that left the call.
Returned(ids) == [st |-> "returned", ids |-> ids]
Thrown(what) == [st |-> what, ids |-> {}]
NotCalled == [st |-> "none", ids |-> {}]

\* A variant that returns the list unfiltered whatever is selected.
getAvailableParents_Unfiltered(all, selected) == Returned(DOMAIN all)

getAvailableParents(all, selected) ==
    IF selected = NoCat THEN Returned(DOMAIN all)
    ELSE IF \E cat \in DOMAIN all :
                cat # selected.id /\ isDescendant(all, cat, selected.id, 1) = "RangeError"
         THEN Thrown("RangeError")
         ELSE Returned({cat \in DOMAIN all :
                cat # selected.id /\ isDescendant(all, cat, selected.id, 1) = "false"})

\* One call of isDescendant, taken a level at a time: the call chain of the
\* walk for one candidate `cat` of the filter.
NoWalk == [cat |-> 0, depth |-> 0, st |-> "idle"]

WalkBegin(cat) ==
    /\ selectedCategory # NoCat
    /\ walk.st # "running"
    /\ cat \in DOMAIN allCategories
    /\ cat # selectedCategory.id
    /\ walk' = [cat |-> cat, depth |-> 1, st |-> "running"]
    /\ UNCHANGED <<allCategories, selectedCategory, available, cacheVars, pageVars, listVars, toolVars>>

WalkStep ==
    /\ walk.st = "running"
    /\ walk' =
         IF walk.depth > StackDepth THEN [walk EXCEPT !.st = "RangeError"]
         ELSE IF walk.cat = selectedCategory.id THEN [walk EXCEPT !.st = "true"]
         ELSE IF allCategories[walk.cat] = 0 THEN [walk EXCEPT !.st = "false"]
         ELSE IF allCategories[walk.cat] \in DOMAIN allCategories
              THEN [walk EXCEPT !.cat = allCategories[walk.cat], !.depth = @ + 1]
              ELSE [walk EXCEPT !.st = "false"]
    /\ UNCHANGED <<allCategories, selectedCategory, available, cacheVars, pageVars, listVars, toolVars>>

\* A render of the parent <select>: getAvailableParents().map(...)
RenderParentOptions ==
    /\ available = NotCalled
    /\ available' = getAvailableParents(allCategories, selectedCategory)
    /\ UNCHANGED <<allCategories, selectedCategory, walk, cacheVars, pageVars, listVars, toolVars>>

\* ------------------------------------------------ parent links of a list
\* The node reached from d by n parent links inside the list (0: the chain left
\* the list or reached a root first).
RECURSIVE Up(_, _, _)
Up(all, d, n) ==
    IF n = 0 THEN d
    ELSE IF d \in DOMAIN all /\ all[d] \in DOMAIN all THEN Up(all, all[d], n - 1)
    ELSE 0

\* d is a descendant of c: following parent links from d reaches c.
IsDescendantOf(all, d, c) ==
    \E n \in 1..Cardinality(DOMAIN all) : Up(all, d, n) = c

IsForest(all) == \A d \in DOMAIN all : ~IsDescendantOf(all, d, d)

\* ------------------------------------------------------- the query client
\* A query key ['family', ...rest]: the family is its first element, `sub` the
\* rest, hashed (a record holding the defined fields).
QueryKey(family, sub) == [family |-> family, sub |-> sub]
CatTreeKey == QueryKey("categories", [name |-> "tree"])
CatAllKey == QueryKey("categories", [name |-> "all"])
BrandsAllKey == QueryKey("brands", [name |-> "all"])
\* ['brands', currentPage, pageSize, sortBy, sortDirection, searchKeyword] of
\* the brands page in its initial state.
BrandsKey ==
    QueryKey("brands", [currentPage |-> 0, pageSize |-> 10, sortBy |-> "createdAt",
                        sortDirection |-> "desc", searchKeyword |-> ""])
\* ['product', productId] of the detail page.
ProductDetailKey == QueryKey("product", [productId |-> 1])

\* The products page's filters.  "undefined" stands for an undefined string
\* field and 0 for an undefined categoryId/brandId (the handlers store
\* `value || undefined`, so 0 is never kept as a number).
UndefStr == "undefined"
InitialFilters ==
    [keyword |-> "", categoryId |-> 0, brandId |-> 0, status |-> UndefStr,
     page |-> 0, size |-> 10]

isDefined(f, fld) ==
    IF fld \in {"keyword", "status"} THEN f[fld] # UndefStr
    ELSE IF fld \in {"categoryId", "brandId"} THEN f[fld] # 0
    ELSE TRUE

\* The hash of an object of a query key: JSON.stringify under sorted keys, which
\* leaves out the fields that are undefined and keeps every other value as it is
\* (the empty string included).
hashKey(f) == [fld \in {x \in DOMAIN f : isDefined(f, x)} |-> f[fld]]

\* ['products', filters]
ProductsKey(f) == QueryKey("products", hashKey(f))

\* A cache entry.  data: "none", or whether the page it holds was fetched after
\* ("post") or before ("pre") the backend's latest change of the family.
\* isInvalidated: the entry was invalidated since its data arrived.  fetch:
\* "idle", or the fetch whose response the entry awaits, tagged like data.
\* abandoned: the cancelled fetches whose requests are still on the network.
NewEntry == [data |-> "none", isInvalidated |-> FALSE, fetch |-> "idle", abandoned |-> 0]

\* A variant without the join: a read of a fetching entry starts a fetch of its
\* own.
Subscribe_NoJoin(q, ks, old) ==
    [k \in DOMAIN q \cup ks |->
        IF k \notin ks THEN q[k]
        ELSE IF k \notin DOMAIN q
             THEN [data |-> "none", isInvalidated |-> FALSE, fetch |-> "post", abandoned |-> 0]
        ELSE IF q[k].fetch # "idle" THEN [q[k] EXCEPT !.fetch = "post", !.abandoned = @ + 1]
        ELSE IF q[k].isInvalidated \/ k \in old THEN [q[k] EXCEPT !.fetch = "post"]
        ELSE q[k]]

\* useQuery on each key of ks (a mount, or a render under a new key): a missing
\* entry is created and fetched, a fetching one is joined, a stale one
\* (invalidated, or in `old`: older than the stale time) is fetched, a fresh one
\* is served as it is.
Subscribe(q, ks, old) ==
    [k \in DOMAIN q \cup ks |->
        IF k \notin ks THEN q[k]
        ELSE IF k \notin DOMAIN q THEN [NewEntry EXCEPT !.fetch = "post"]
        ELSE IF q[k].fetch # "idle" THEN q[k]
        ELSE IF q[k].isInvalidated \/ k \in old THEN [q[k] EXCEPT !.fetch = "post"]
        ELSE q[k]]

\* The entries among ks that a read serves as fresh unless their stale time has
\* run out.
Fresh(q, ks) ==
    {k \in ks \cap DOMAIN q : q[k].fetch = "idle" /\ ~q[k].isInvalidated}

\* queryClient.invalidateQueries({ queryKey: [family] }): every entry of the
\* family is marked invalidated; those with an observer (active) are refetched,
\* a refetch in flight for an entry that holds data being cancelled for a new
\* one (the request of the cancelled fetch is not aborted: no queryFn takes the
\* signal).
InvalidateQueries(q, family, active) ==
    [k \in DOMAIN q |->
        IF k.family # family THEN q[k]
        ELSE IF k \notin active THEN [q[k] EXCEPT !.isInvalidated = TRUE]
        ELSE IF q[k].fetch = "idle" THEN [q[k] EXCEPT !.isInvalidated = TRUE, !.fetch = "post"]
        ELSE IF q[k].data # "none"
             THEN [q[k] EXCEPT !.isInvalidated = TRUE, !.fetch = "post", !.abandoned = @ + 1]
             ELSE [q[k] EXCEPT !.isInvalidated = TRUE]]

\* The backend changed the family's data: what was fetched so far predates it.
Outdate(q, family) ==
    [k \in DOMAIN q |->
        IF k.family # family THEN q[k]
        ELSE [q[k] EXCEPT !.data = IF @ = "post" THEN "pre" ELSE @,
                          !.fetch = IF @ = "post" THEN "pre" ELSE @]]

\* The keys the useQuery calls of page r read, the products page under the
\* filters f.
PageKeys(r, f) ==
    CASE r = "categories" -> {CatTreeKey, CatAllKey}
      [] r = "products" -> {ProductsKey(f), BrandsAllKey, CatTreeKey}
      [] r = "brands" -> {BrandsKey}
      [] r = "detail" -> {ProductDetailKey}
      [] OTHER -> {}

\* The keys the mounted page observes.
ActiveKeys == PageKeys(route, filters)

\* The requests of key k that are on the network.
NetRequests(q, k) == (IF q[k].fetch = "idle" THEN 0 ELSE 1) + q[k].abandoned

\* The awaited response of key k arrives: the entry is replaced and fresh.
ResolveFetch(k) ==
    /\ k \in DOMAIN queries
    /\ queries[k].fetch # "idle"
    /\ queries' = [queries EXCEPT ![k].data = queries[k].fetch,
                                  ![k].isInvalidated = FALSE,
                                  ![k].fetch = "idle"]
    /\ allCategories' = IF k = CatAllKey THEN serverCats ELSE allCategories
    /\ treeData' = IF k = CatTreeKey THEN serverCats ELSE treeData
    /\ UNCHANGED <<selectedCategory, available, walk, route, serverCats, modalMode,
                   parentId, formParent, error, mutation, mutCount, listVars, toolVars>>

\* The response of a cancelled fetch arrives and is dropped.
DropAbandoned(k) ==
    /\ k \in DOMAIN queries
    /\ queries[k].abandoned > 0
    /\ queries' = [queries EXCEPT ![k].abandoned = @ - 1]
    /\ UNCHANGED <<filterVars, route, pageVars, listVars, toolVars>>

\* ---------------------------------------------------- the categories page
EmptyList == [i \in {} |-> 0]
NoMutation == [kind |-> "none", status |-> "idle", id |-> 0, newParent |-> 0]
isPending == mutation.status = "pending"

\* The entries of the parent <select>: "None (Root Category)" and the
\* categories getAvailableParents returns.
ParentOptions ==
    {0} \cup getAvailableParents(allCategories, selectedCategory).ids

openAddModal(parentCategoryId) ==
    /\ route = "categories" /\ modalMode = "none"
    /\ parentCategoryId \in {0} \cup DOMAIN treeData
    /\ modalMode' = "add"
    /\ parentId' = parentCategoryId
    /\ error' = "null"
    /\ formParent' = parentCategoryId
    /\ UNCHANGED <<filterVars, cacheVars, serverCats, treeData, mutation, mutCount, listVars, toolVars>>

openEditModal(category) ==
    /\ route = "categories" /\ modalMode = "none"
    /\ category \in DOMAIN treeData
    /\ modalMode' = "edit"
    /\ selectedCategory' = [id |-> category, parentCategoryId |-> treeData[category]]
    /\ error' = "null"
    /\ formParent' = treeData[category]
    /\ UNCHANGED <<allCategories, available, walk, cacheVars, serverCats, treeData,
                   parentId, mutation, mutCount, listVars, toolVars>>

openDeleteModal(category) ==
    /\ route = "categories" /\ modalMode = "none"
    /\ category \in DOMAIN treeData
    /\ modalMode' = "delete"
    /\ selectedCategory' = [id |-> category, parentCategoryId |-> treeData[category]]
    /\ error' = "null"
    /\ UNCHANGED <<allCategories, available, walk, cacheVars, serverCats, treeData,
                   parentId, formParent, mutation, mutCount, listVars, toolVars>>

openMoveModal(category) ==
    /\ route = "categories" /\ modalMode = "none"
    /\ category \in DOMAIN treeData
    /\ modalMode' = "move"
    /\ selectedCategory' = [id |-> category, parentCategoryId |-> treeData[category]]
    /\ parentId' = treeData[category]
    /\ error' = "null"
    /\ UNCHANGED <<allCategories, available, walk, cacheVars, serverCats, treeData,
                   formParent, mutation, mutCount, listVars, toolVars>>

\* A variant of closeModal that leaves the selection as it is.
closeModal_KeepingSelection ==
    /\ modalMode' = "none"
    /\ selectedCategory' = selectedCategory
    /\ parentId' = 0
    /\ error' = "null"
    /\ formParent' = 0

\* closeModal(): the state it leaves.
closeModal ==
    /\ modalMode' = "none"
    /\ selectedCategory' = NoCat
    /\ parentId' = 0
    /\ error' = "null"
    /\ formParent' = 0

\* Cancel (disabled while a mutation is pending).
CancelModal ==
    /\ route = "categories" /\ modalMode # "none" /\ ~isPending
    /\ closeModal
    /\ UNCHANGED <<allCategories, available, walk, cacheVars, serverCats, treeData,
                   mutation, mutCount, listVars, toolVars>>

\* The move modal's <select> onChange: setParentId.
SelectMoveParent(p) ==
    /\ route = "categories" /\ modalMode = "move"
    /\ p \in ParentOptions
    /\ parentId' = p
    /\ UNCHANGED <<filterVars, cacheVars, serverCats, treeData, modalMode, formParent,
                   error, mutation, mutCount, listVars, toolVars>>

\* The add/edit form's parent <select>.
SelectFormParent(p) ==
    /\ route = "categories" /\ modalMode \in {"add", "edit"}
    /\ p \in ParentOptions
    /\ formParent' = p
    /\ UNCHANGED <<filterVars, cacheVars, serverCats, treeData, modalMode, parentId,
                   error, mutation, mutCount, listVars, toolVars>>

\* mutate(): the request leaves for the backend.
Mutate(kind, id, newParent) ==
    mutation' = [kind |-> kind, status |-> "pending", id |-> id, newParent |-> newParent]

\* onSubmit(data), called by handleSubmit with data that passed the schema.
onSubmit ==
    /\ route = "categories" /\ ~isPending
    /\ \/ /\ modalMode = "add"
          /\ Mutate("create", 0, formParent)
       \/ /\ modalMode = "edit" /\ selectedCategory # NoCat
          /\ Mutate("update", selectedCategory.id, formParent)
    /\ error' = "null"
    /\ UNCHANGED <<filterVars, cacheVars, serverCats, treeData, modalMode, parentId,
                   formParent, mutCount, listVars, toolVars>>

handleDelete ==
    /\ route = "categories" /\ modalMode = "delete" /\ ~isPending
    /\ selectedCategory # NoCat
    /\ error' = "null"
    /\ Mutate("delete", selectedCategory.id, 0)
    /\ UNCHANGED <<filterVars, cacheVars, serverCats, treeData, modalMode, parentId,
                   formParent, mutCount, listVars, toolVars>>

handleMove ==
    /\ route = "categories" /\ modalMode = "move" /\ ~isPending
    /\ selectedCategory # NoCat
    /\ error' = "null"
    /\ Mutate("move", selectedCategory.id, parentId)
    /\ UNCHANGED <<filterVars, cacheVars, serverCats, treeData, modalMode, parentId,
                   formParent, mutCount, listVars, toolVars>>


\* ------------------------------------------------------------ the backend
\* The backend keeps the categories a forest: it refuses a parent that is
\* missing, the category itself or one of its descendants.
ServerAccepts(cats, m) ==
    CASE m.kind = "create" ->
            /\ DOMAIN cats # CatIds
            /\ m.newParent \in {0} \cup DOMAIN cats
      [] m.kind \in {"update", "move"} ->
            /\ m.id \in DOMAIN cats
            /\ m.newParent \in {0} \cup DOMAIN cats
            /\ m.newParent # m.id
            /\ ~IsDescendantOf(cats, m.newParent, m.id)
      [] m.kind = "delete" -> m.id \in DOMAIN cats
      [] OTHER -> FALSE

ServerApply(cats, m) ==
    CASE m.kind = "create" ->
            LET new == CHOOSE i \in CatIds \ DOMAIN cats :
                            \A j \in CatIds \ DOMAIN cats : i <= j
            IN  [i \in DOMAIN cats \cup {new} |-> IF i = new THEN m.newParent ELSE cats[i]]
      [] m.kind \in {"update", "move"} -> [cats EXCEPT ![m.id] = m.newParent]
      [] m.kind = "delete" ->
            [i \in {j \in DOMAIN cats : j # m.id /\ ~IsDescendantOf(cats, j, m.id)} |-> cats[i]]
      [] OTHER -> cats

\* onSuccess of createMutation, updateMutation, deleteMutation and
\* moveMutation: invalidateQueries({ queryKey: ['categories'] }); closeModal().
Categories_onSuccess(q, active) == InvalidateQueries(q, "categories", active)

CategoryMutationSuccess ==
    /\ route = "categories" /\ isPending
    /\ mutCount < MaxMutations
    /\ ServerAccepts(serverCats, mutation)
    /\ serverCats' = ServerApply(serverCats, mutation)
    /\ mutCount' = mutCount + 1
    /\ queries' = Categories_onSuccess(Outdate(queries, "categories"), ActiveKeys)
    /\ closeModal
    /\ mutation' = NoMutation
    /\ UNCHANGED <<allCategories, available, walk, route, treeData, listVars, toolVars>>

\* A variant of onError that closes the modal.
CategoryMutationError_ClosingModal ==
    /\ route = "categories" /\ isPending
    /\ closeModal
    /\ mutation' = NoMutation
    /\ UNCHANGED <<allCategories, available, walk, cacheVars, serverCats, treeData,
                   mutCount, listVars, toolVars>>

\* onError of the four mutations: setError(...).
CategoryMutationError ==
    /\ route = "categories" /\ isPending
    /\ error' = "Error"
    /\ mutation' = NoMutation
    /\ UNCHANGED <<filterVars, cacheVars, serverCats, treeData, modalMode, parentId,
                   formParent, mutCount, listVars, toolVars>>

\* ------------------------------------------------------ the products page
SearchInputs == {"", "a"}
CategoryFilterIds == {1}
ProductIds == {1}
BrandIds == {1}

\* The rows of the list are rendered once the page's list query holds data.
ListLoaded(k) == k \in DOMAIN queries /\ queries[k].data # "none"

\* A render under new filters: useQuery reads the key of the new filters (none
\* is read when the key is the one already observed).
ReadProducts(q, prev, new, old) ==
    IF ProductsKey(new) = ProductsKey(prev) THEN q ELSE Subscribe(q, {ProductsKey(new)}, old)

setSearchInput(v) ==
    /\ route = "products" /\ modalMode = "none"
    /\ v # searchInput
    /\ searchInput' = v
    /\ UNCHANGED <<filterVars, cacheVars, pageVars, filters, selectedProduct, selectedBrand, toolVars>>

handleSearch ==
    /\ route = "products" /\ modalMode = "none"
    /\ filters' = [filters EXCEPT !.keyword = IF searchInput = "" THEN UndefStr ELSE searchInput,
                                  !.page = 0]
    /\ \E old \in SUBSET Fresh(queries, {ProductsKey(filters')}) :
          queries' = ReadProducts(queries, filters, filters', old)
    /\ UNCHANGED <<filterVars, route, pageVars, searchInput, selectedProduct, selectedBrand, toolVars>>

\* handleFilterChange(key, value) of the category and brand selects: value is
\* Number(e.target.value), or undefined for the empty option.
handleFilterChange(key, value) ==
    /\ route = "products" /\ modalMode = "none"
    /\ key \in {"categoryId", "brandId"}
    /\ filters' = [filters EXCEPT ![key] = value, !.page = 0]
    /\ \E old \in SUBSET Fresh(queries, {ProductsKey(filters')}) :
          queries' = ReadProducts(queries, filters, filters', old)
    /\ UNCHANGED <<filterVars, route, pageVars, searchInput, selectedProduct, selectedBrand, toolVars>>

clearFilters ==
    /\ route = "products" /\ modalMode = "none"
    /\ searchInput' = ""
    /\ filters' = InitialFilters
    /\ \E old \in SUBSET Fresh(queries, {ProductsKey(filters')}) :
          queries' = ReadProducts(queries, filters, filters', old)
    /\ UNCHANGED <<filterVars, route, pageVars, selectedProduct, selectedBrand, toolVars>>

Products_openAddModal ==
    /\ route = "products" /\ modalMode = "none"
    /\ modalMode' = "add"
    /\ UNCHANGED <<filterVars, cacheVars, serverCats, treeData, parentId, formParent,
                   error, mutation, mutCount, listVars, toolVars>>

Products_openEditModal(product) ==
    /\ route = "products" /\ modalMode = "none"
    /\ ListLoaded(ProductsKey(filters))
    /\ modalMode' = "edit"
    /\ selectedProduct' = product
    /\ UNCHANGED <<filterVars, cacheVars, serverCats, treeData, parentId, formParent,
                   error, mutation, mutCount, filters, searchInput, selectedBrand, toolVars>>

Products_openDeleteModal(product) ==
    /\ route = "products" /\ modalMode = "none"
    /\ ListLoaded(ProductsKey(filters))
    /\ modalMode' = "delete"
    /\ selectedProduct' = product
    /\ UNCHANGED <<filterVars, cacheVars, serverCats, treeData, parentId, formParent,
                   error, mutation, mutCount, filters, searchInput, selectedBrand, toolVars>>

Products_closeModal ==
    /\ modalMode' = "none"
    /\ selectedProduct' = 0
    /\ error' = "null"

\* Cancel (disabled while a mutation is pending).
Products_CancelModal ==
    /\ route = "products" /\ modalMode # "none" /\ ~isPending
    /\ Products_closeModal
    /\ UNCHANGED <<filterVars, cacheVars, serverCats, treeData, parentId, formParent,
                   mutation, mutCount, filters, searchInput, selectedBrand, toolVars>>

handleCreateSubmit ==
    /\ route = "products" /\ modalMode = "add" /\ ~isPending
    /\ error' = "null"
    /\ Mutate("create", 0, 0)
    /\ UNCHANGED <<filterVars, cacheVars, serverCats, treeData, modalMode, parentId,
                   formParent, mutCount, listVars, toolVars>>

handleUpdateSubmit ==
    /\ route = "products" /\ modalMode = "edit" /\ ~isPending
    /\ selectedProduct # 0
    /\ error' = "null"
    /\ Mutate("update", selectedProduct, 0)
    /\ UNCHANGED <<filterVars, cacheVars, serverCats, treeData, modalMode, parentId,
                   formParent, mutCount, listVars, toolVars>>

Products_handleDelete ==
    /\ route = "products" /\ modalMode = "delete" /\ ~isPending
    /\ selectedProduct # 0
    /\ error' = "null"
    /\ Mutate("delete", selectedProduct, 0)
    /\ UNCHANGED <<filterVars, cacheVars, serverCats, treeData, modalMode, parentId,
                   formParent, mutCount, listVars, toolVars>>

\* A variant of onSuccess that closes the modal only.
onSuccess_CloseOnly(q, active) == q

\* onSuccess of createMutation, updateMutation and deleteMutation:
\* invalidateQueries({ queryKey: ['products'] }); closeModal().
Products_onSuccess(q, active) == InvalidateQueries(q, "products", active)

ProductMutationSuccess ==
    /\ route = "products" /\ isPending
    /\ mutCount < MaxMutations
    /\ mutCount' = mutCount + 1
    /\ queries' = Products_onSuccess(Outdate(Outdate(queries, "products"), "product"), ActiveKeys)
    /\ Products_closeModal
    /\ mutation' = NoMutation
    /\ UNCHANGED <<filterVars, route, serverCats, treeData, parentId, formParent,
                   filters, searchInput, selectedBrand, toolVars>>

\* onError of the three mutations: setError(...).
ProductMutationError ==
    /\ route = "products" /\ isPending
    /\ error' = "Error"
    /\ mutation' = NoMutation
    /\ UNCHANGED <<filterVars, cacheVars, serverCats, treeData, modalMode, parentId,
                   formParent, mutCount, listVars, toolVars>>

\* The Link of a row to /products/{id}: the list page unmounts (its state is
\* gone) and the detail page mounts.
ViewProduct ==
    /\ route = "products" /\ modalMode = "none"
    /\ ListLoaded(ProductsKey(filters))
    /\ route' = "detail"
    /\ \E old \in SUBSET Fresh(queries, PageKeys("detail", InitialFilters)) :
          queries' = Subscribe(queries, PageKeys("detail", InitialFilters), old)
    /\ filters' = InitialFilters
    /\ searchInput' = ""
    /\ error' = "null"
    /\ UNCHANGED <<filterVars, serverCats, treeData, modalMode, parentId, formParent,
                   mutation, mutCount, selectedProduct, selectedBrand, toolVars>>

\* ----------------------------------------- the product detail and edit pages
\* router.push(`/products/${productId}/edit`)
EditProduct ==
    /\ route = "detail"
    /\ route' = "edit"
    /\ UNCHANGED <<filterVars, queries, pageVars, listVars, toolVars>>

\* onSubmit of the edit form: setSubmitting(true); setError(null); the request
\* of productService.update or productService.create leaves.
ProductEdit_onSubmit ==
    /\ route = "edit" /\ ~isPending
    /\ error' = "null"
    /\ Mutate("save", 1, 0)
    /\ UNCHANGED <<filterVars, cacheVars, serverCats, treeData, modalMode, parentId,
                   formParent, mutCount, listVars, toolVars>>

\* The request succeeded: router.push('/products'), and the products page
\* mounts and reads its keys.
ProductEdit_SubmitSuccess ==
    /\ route = "edit" /\ isPending
    /\ mutCount < MaxMutations
    /\ mutCount' = mutCount + 1
    /\ route' = "products"
    /\ \E old \in SUBSET Fresh(queries, PageKeys("products", InitialFilters)) :
          queries' = Subscribe(Outdate(Outdate(queries, "products"), "product"),
                               PageKeys("products", InitialFilters), old)
    /\ mutation' = NoMutation
    /\ UNCHANGED <<filterVars, serverCats, treeData, modalMode, parentId, formParent,
                   error, listVars, toolVars>>

\* The request failed: setError(...); setSubmitting(false).
ProductEdit_SubmitError ==
    /\ route = "edit" /\ isPending
    /\ error' = "Error"
    /\ mutation' = NoMutation
    /\ UNCHANGED <<filterVars, cacheVars, serverCats, treeData, modalMode, parentId,
                   formParent, mutCount, listVars, toolVars>>

\* Cancel (disabled while submitting): router.push('/products').
ProductEdit_Cancel ==
    /\ route = "edit" /\ ~isPending
    /\ route' = "products"
    /\ \E old \in SUBSET Fresh(queries, PageKeys("products", InitialFilters)) :
          queries' = Subscribe(queries, PageKeys("products", InitialFilters), old)
    /\ error' = "null"
    /\ UNCHANGED <<filterVars, serverCats, treeData, modalMode, parentId, formParent,
                   mutation, mutCount, listVars, toolVars>>

\* -------------------------------------------------------- the brands page
Brands_openAddModal ==
    /\ route = "brands" /\ modalMode = "none"
    /\ modalMode' = "add"
    /\ UNCHANGED <<filterVars, cacheVars, serverCats, treeData, parentId, formParent,
                   error, mutation, mutCount, listVars, toolVars>>

Brands_openEditModal(brand) ==
    /\ route = "brands" /\ modalMode = "none"
    /\ ListLoaded(BrandsKey)
    /\ modalMode' = "edit"
    /\ selectedBrand' = brand
    /\ UNCHANGED <<filterVars, cacheVars, serverCats, treeData, parentId, formParent,
                   error, mutation, mutCount, filters, searchInput, selectedProduct, toolVars>>

Brands_openDeleteModal(brand) ==
    /\ route = "brands" /\ modalMode = "none"
    /\ ListLoaded(BrandsKey)
    /\ modalMode' = "delete"
    /\ selectedBrand' = brand
    /\ UNCHANGED <<filterVars, cacheVars, serverCats, treeData, parentId, formParent,
                   error, mutation, mutCount, filters, searchInput, selectedProduct, toolVars>>

Brands_closeModal ==
    /\ modalMode' = "none"
    /\ selectedBrand' = 0

\* Cancel (disabled while a mutation is pending).
Brands_CancelModal ==
    /\ route = "brands" /\ modalMode # "none" /\ ~isPending
    /\ Brands_closeModal
    /\ UNCHANGED <<filterVars, cacheVars, serverCats, treeData, parentId, formParent,
                   error, mutation, mutCount, filters, searchInput, selectedProduct, toolVars>>

handleAddSubmit ==
    /\ route = "brands" /\ modalMode = "add" /\ ~isPending
    /\ Mutate("create", 0, 0)
    /\ UNCHANGED <<filterVars, cacheVars, serverCats, treeData, modalMode, parentId,
                   formParent, error, mutCount, listVars, toolVars>>

handleEditSubmit ==
    /\ route = "brands" /\ modalMode = "edit" /\ ~isPending
    /\ selectedBrand # 0
    /\ Mutate("update", selectedBrand, 0)
    /\ UNCHANGED <<filterVars, cacheVars, serverCats, treeData, modalMode, parentId,
                   formParent, error, mutCount, listVars, toolVars>>

Brands_handleDelete ==
    /\ route = "brands" /\ modalMode = "delete" /\ ~isPending
    /\ selectedBrand # 0
    /\ Mutate("delete", selectedBrand, 0)
    /\ UNCHANGED <<filterVars, cacheVars, serverCats, treeData, modalMode, parentId,
                   formParent, error, mutCount, listVars, toolVars>>

\* onSuccess of createMutation, updateMutation and deleteMutation:
\* invalidateQueries({ queryKey: ['brands'] }); closeModal().
Brands_onSuccess(q, active) == InvalidateQueries(q, "brands", active)

BrandMutationSuccess ==
    /\ route = "brands" /\ isPending
    /\ mutCount < MaxMutations
    /\ mutCount' = mutCount + 1
    /\ queries' = Brands_onSuccess(Outdate(queries, "brands"), ActiveKeys)
    /\ Brands_closeModal
    /\ mutation' = NoMutation
    /\ UNCHANGED <<filterVars, route, serverCats, treeData, parentId, formParent,
                   error, filters, searchInput, selectedProduct, toolVars>>

\* The request failed: the mutations of this page have no onError; the modal
\* shows createMutation.error, updateMutation.error or deleteMutation.error,
\* which the mutation keeps until it is sent again.
BrandMutationError ==
    /\ route = "brands" /\ isPending
    /\ mutation' = [mutation EXCEPT !.status = "error"]
    /\ UNCHANGED <<filterVars, cacheVars, serverCats, treeData, modalMode, parentId,
                   formParent, error, mutCount, listVars, toolVars>>

\* ------------------------------------- the images of the product edit page
\* The image list is a function from the ids of the images to the order of
\* each; `images` is the data of useQuery(['product-images', productId]).
ImageIds == 1..NumImages
NoEvent == [op |-> "none", id |-> 0]

\* The orders of an image list after the entries of imageOrders are applied.
ApplyOrders(list, imageOrders) ==
    [i \in DOMAIN list |-> IF i \in DOMAIN imageOrders THEN imageOrders[i] ELSE list[i]]

handleDragStart(imageId) ==
    /\ route = "edit"
    /\ imageId \in DOMAIN images
    /\ draggedImageId' = imageId
    /\ imageEvent' = [op |-> "dragstart", id |-> 0]
    /\ UNCHANGED <<appVars, imageOthers, imageFormVars, images, imagesFetch, serverImages, imageReqs,
                   imageSent>>

\* A variant that reorders also when an image is dropped onto itself.
handleDrop_NoSelfCheck(targetImageId) ==
    /\ route = "edit"
    /\ targetImageId \in DOMAIN images
    /\ imageEvent' = [op |-> "drop", id |-> targetImageId]
    /\ IF draggedImageId = 0 \/ draggedImageId \notin DOMAIN images
       THEN UNCHANGED <<draggedImageId, imageReqs, imageSent>>
       ELSE /\ imageSent < MaxImageRequests
            /\ imageSent' = imageSent + 1
            /\ imageReqs' = Append(imageReqs,
                  [kind |-> "reorder", id |-> 0, imageUrl |-> <<>>, order |-> 0,
                   imageOrders |-> (draggedImageId :> images[targetImageId]
                                    @@ targetImageId :> images[draggedImageId])])
            /\ draggedImageId' = 0
    /\ UNCHANGED <<appVars, imageOthers, imageFormVars, images, imagesFetch, serverImages>>

\* A variant that sends the order of every loaded image, the two exchanged.
handleDrop_SendAll(targetImageId) ==
    /\ route = "edit"
    /\ targetImageId \in DOMAIN images
    /\ imageEvent' = [op |-> "drop", id |-> targetImageId]
    /\ IF draggedImageId = 0 \/ draggedImageId = targetImageId
          \/ draggedImageId \notin DOMAIN images
       THEN UNCHANGED <<draggedImageId, imageReqs, imageSent>>
       ELSE /\ imageSent < MaxImageRequests
            /\ imageSent' = imageSent + 1
            /\ imageReqs' = Append(imageReqs,
                  [kind |-> "reorder", id |-> 0, imageUrl |-> <<>>, order |-> 0,
                   imageOrders |-> [i \in DOMAIN images |->
                        IF i = draggedImageId THEN images[targetImageId]
                        ELSE IF i = targetImageId THEN images[draggedImageId]
                        ELSE images[i]]])
            /\ draggedImageId' = 0
    /\ UNCHANGED <<appVars, imageOthers, imageFormVars, images, imagesFetch, serverImages>>

\* handleDrop(e, targetImageId): the drop lands on a rendered card, so its
\* target is in the loaded list; productId is the product being edited.
handleDrop(targetImageId) ==
    /\ route = "edit"
    /\ targetImageId \in DOMAIN images
    /\ imageEvent' = [op |-> "drop", id |-> targetImageId]
    /\ IF draggedImageId = 0 \/ draggedImageId = targetImageId
          \/ draggedImageId \notin DOMAIN images
       THEN UNCHANGED <<draggedImageId, imageReqs, imageSent>>
       ELSE /\ imageSent < MaxImageRequests
            /\ imageSent' = imageSent + 1
            /\ imageReqs' = Append(imageReqs,
                  [kind |-> "reorder", id |-> 0, imageUrl |-> <<>>, order |-> 0,
                   imageOrders |-> (draggedImageId :> images[targetImageId]
                                    @@ targetImageId :> images[draggedImageId])])
            /\ draggedImageId' = 0
    /\ UNCHANGED <<appVars, imageOthers, imageFormVars, images, imagesFetch, serverImages>>

\* handleDeleteImage(id), the confirm() answered with OK.
handleDeleteImage(id) ==
    /\ route = "edit"
    /\ id \in DOMAIN images
    /\ imageSent < MaxImageRequests
    /\ imageSent' = imageSent + 1
    /\ imageReqs' = Append(imageReqs, [kind |-> "delete", id |-> id, imageUrl |-> <<>>, order |-> 0,
                                     imageOrders |-> EmptyList])
    /\ imageEvent' = [op |-> "delete", id |-> 0]
    /\ UNCHANGED <<appVars, imageOthers, imageFormVars, images, imagesFetch, serverImages,
                   draggedImageId>>

\* The sequence without its i-th element.
RemoveAt(seq, i) == [j \in 1..(Len(seq) - 1) |-> IF j < i THEN seq[j] ELSE seq[j + 1]]

\* The backend applies an image request; a new image gets the next id.
ServerApplyImage(list, req) ==
    CASE req.kind = "reorder" -> ApplyOrders(list, req.imageOrders)
      [] req.kind = "delete" -> [i \in DOMAIN list \ {req.id} |-> list[i]]
      [] req.kind = "add" ->
            LET newId == (CHOOSE m \in DOMAIN list \cup {0} :
                              \A i \in DOMAIN list : i <= m) + 1
            IN  [i \in DOMAIN list \cup {newId} |->
                    IF i = newId THEN req.order ELSE list[i]]
      [] OTHER -> list

\* A request succeeds; onSuccess of the image mutations:
\* invalidateQueries({ queryKey: ['product-images', productId] }), the fields
\* of the form that sent it cleared, setError(null).
ImageRequestSuccess(i) ==
    /\ i \in DOMAIN imageReqs
    /\ serverImages' = ServerApplyImage(serverImages, imageReqs[i])
    /\ imageReqs' = RemoveAt(imageReqs, i)
    /\ imagesFetch' = "fetching"
    /\ error' = "null"
    /\ newImageUrl' = IF imageReqs[i].kind = "add" THEN <<>> ELSE newImageUrl
    /\ editingImage' = IF imageReqs[i].kind = "update" THEN 0 ELSE editingImage
    /\ editImageUrl' = IF imageReqs[i].kind = "update" THEN <<>> ELSE editImageUrl
    /\ UNCHANGED <<imageOthers, filterVars, cacheVars, serverCats, treeData, modalMode, parentId,
                   formParent, mutation, mutCount, listVars, images, draggedImageId,
                   imageSent, imageEvent>>

\* A request fails; onError: setError(...).
ImageRequestError(i) ==
    /\ i \in DOMAIN imageReqs
    /\ imageReqs' = RemoveAt(imageReqs, i)
    /\ error' = "Error"
    /\ UNCHANGED <<imageOthers, imageFormVars, filterVars, cacheVars, serverCats, treeData,
                   modalMode, parentId, formParent, mutation, mutCount, listVars, images,
                   imagesFetch, serverImages, draggedImageId, imageSent, imageEvent>>

\* The response of productImageService.getByProductId arrives.
ImagesResolve ==
    /\ imagesFetch = "fetching"
    /\ images' = serverImages
    /\ imagesFetch' = "idle"
    /\ UNCHANGED <<appVars, imageOthers, imageFormVars, serverImages, draggedImageId, imageReqs,
                   imageSent, imageEvent>>

ImagesAtRest ==
    /\ images = EmptyList
    /\ imagesFetch = "idle"
    /\ serverImages = EmptyList
    /\ draggedImageId = 0
    /\ imageReqs = <<>>
    /\ imageSent = 0
    /\ imageEvent = NoEvent
    /\ newImageUrl = <<>>
    /\ editingImage = 0
    /\ editImageUrl = <<>>

\* ------------------------------------------------- flattening the category tree
\* A CategoryTree[] is held as the sequence of the ids of its roots and, for a
\* node, the sequence of the ids of its subCategories; a node outside the
\* domain has subCategories undefined.
NodeIds == 1..NumNodes
Orderings(S) ==
    {f \in [1..Cardinality(S) -> S] : \A i, j \in DOMAIN f : f[i] = f[j] => i = j}
ChildrenOf(parent, order, x) == SelectSeq(order, LAMBDA y : parent[y] = x)

\* Every tree over some of the ids: any parent links without a cycle, the
\* siblings in any order, the leaves with subCategories [] or undefined.
CategoryTrees ==
    UNION {{[roots |-> ChildrenOf(parent, order, 0),
             subCategories |->
                [x \in {y \in S : ~undef \/ ChildrenOf(parent, order, y) # <<>>}
                    |-> ChildrenOf(parent, order, x)]]
            : parent \in {pp \in [S -> S \cup {0}] : IsForest(pp)},
              order \in Orderings(S), undef \in BOOLEAN}
           : S \in SUBSET NodeIds}

\* cat.subCategories && cat.subCategories.length > 0
hasSubCategories(tree, cat) ==
    cat \in DOMAIN tree.subCategories /\ Len(tree.subCategories[cat]) > 0

\* A variant that gives the subCategories the level of their parent.
RECURSIVE Products_flattenCategories_SameLevel(_, _, _)
Products_flattenCategories_SameLevel(tree, cats, level) ==
    IF cats = <<>> THEN <<>>
    ELSE LET cat == Head(cats)
         IN  <<[id |-> cat, level |-> level]>>
             \o (IF hasSubCategories(tree, cat)
                 THEN Products_flattenCategories_SameLevel(tree, tree.subCategories[cat], level)
                 ELSE <<>>)
             \o Products_flattenCategories_SameLevel(tree, Tail(cats), level)

\* products page: flattenCategories(cats, level = 0)
RECURSIVE Products_flattenCategories(_, _, _)
Products_flattenCategories(tree, cats, level) ==
    IF cats = <<>> THEN <<>>
    ELSE LET cat == Head(cats)
         IN  <<[id |-> cat, level |-> level]>>
             \o (IF hasSubCategories(tree, cat)
                 THEN Products_flattenCategories(tree, tree.subCategories[cat], level + 1)
                 ELSE <<>>)
             \o Products_flattenCategories(tree, Tail(cats), level)

\* A variant that emits a node after its subCategories.
RECURSIVE flattenCategories_PostOrder(_, _)
flattenCategories_PostOrder(tree, cats) ==
    IF cats = <<>> THEN <<>>
    ELSE LET cat == Head(cats)
         IN  (IF hasSubCategories(tree, cat)
              THEN flattenCategories_PostOrder(tree, tree.subCategories[cat])
              ELSE <<>>)
             \o <<cat>>
             \o flattenCategories_PostOrder(tree, Tail(cats))

\* A variant that leaves the subCategories out.
RECURSIVE flattenCategories_RootsOnly(_, _)
flattenCategories_RootsOnly(tree, cats) ==
    IF cats = <<>> THEN <<>>
    ELSE <<Head(cats)>> \o flattenCategories_RootsOnly(tree, Tail(cats))

\* TreeSelect of the product edit page: flattenCategories(cats)
RECURSIVE flattenCategories(_, _)
flattenCategories(tree, cats) ==
    IF cats = <<>> THEN <<>>
    ELSE LET cat == Head(cats)
         IN  <<cat>>
             \o (IF hasSubCategories(tree, cat)
                 THEN flattenCategories(tree, tree.subCategories[cat])
                 ELSE <<>>)
             \o flattenCategories(tree, Tail(cats))

\* TreeSelect: categories.map((cat) => renderTreeNode(cat)); the buttons in
\* document order, each with the level of its padding.
RECURSIVE renderTreeNode(_, _, _)
renderTreeNode(tree, category, level) ==
    LET RECURSIVE children(_)
        children(cs) ==
            IF cs = <<>> THEN <<>>
            ELSE renderTreeNode(tree, Head(cs), level + 1) \o children(Tail(cs))
    IN  <<[id |-> category, level |-> level]>>
        \o (IF category \in DOMAIN tree.subCategories
            THEN children(tree.subCategories[category])
            ELSE <<>>)

RECURSIVE renderTree(_, _)
renderTree(tree, cats) ==
    IF cats = <<>> THEN <<>>
    ELSE renderTreeNode(tree, Head(cats), 0) \o renderTree(tree, Tail(cats))

NoTree == [roots |-> <<>>, subCategories |-> EmptyList]
NotYet == <<[id |-> 0, level |-> 0]>>

\* The products page renders: const categories = flattenCategories(categoriesTree).
ProductsPage_flatten ==
    /\ categories' = Products_flattenCategories(categoriesTree, categoriesTree.roots, 0)
    /\ UNCHANGED <<appVars, treeOthers, categoryList, categoriesTree, TreeSelect_allCategories, rendered>>

\* The effect of TreeSelect: setAllCategories(flattenCategories(categories)).
TreeSelect_flatten ==
    /\ TreeSelect_allCategories' = flattenCategories(categoriesTree, categoriesTree.roots)
    /\ UNCHANGED <<appVars, treeOthers, categoryList, categoriesTree, categories, rendered>>

\* TreeSelect renders its open list.
TreeSelect_render ==
    /\ rendered' = renderTree(categoriesTree, categoriesTree.roots)
    /\ UNCHANGED <<appVars, treeOthers, categoryList, categoriesTree, categories, TreeSelect_allCategories>>

\* The flat lists with a forest structure: every record has an id, a parentId
\* (0 = none) that is an id of the list, and an order; no chain of parents
\* closes a cycle.
FlatCategoryLists ==
    UNION {{[i \in S |-> [parentId |-> parent[i], order |-> order[i]]]
            : parent \in {pp \in [S -> S \cup {0}] : IsForest(pp)}, order \in [S -> 1..2]}
           : S \in SUBSET NodeIds}

\* The ids of a group in ascending order, ties broken by id.
SortSiblings(list, group) ==
    CHOOSE seq \in Orderings(group) :
        \A i, j \in DOMAIN seq :
            i < j => \/ list[seq[i]].order < list[seq[j]].order
                     \/ list[seq[i]].order = list[seq[j]].order /\ seq[i] < seq[j]

\* Build from flat list: group the records by parentId, attach recursively
\* from the root group; a record whose parent is missing is a root.
buildTree(list) ==
    LET isRoot(i) == list[i].parentId \notin DOMAIN list
    IN  [roots |-> SortSiblings(list, {i \in DOMAIN list : isRoot(i)}),
         subCategories |->
            [x \in DOMAIN list |->
                SortSiblings(list, {i \in DOMAIN list : list[i].parentId = x})]]

\* The category list arrives and the tree is built; the pages render anew.
LoadTree ==
    /\ categoriesTree' = buildTree(categoryList)
    /\ categories' = NotYet
    /\ TreeSelect_allCategories' = <<0>>
    /\ rendered' = NotYet
    /\ UNCHANGED <<appVars, treeOthers, categoryList>>

TreesAtRest ==
    /\ categoryList = EmptyList
    /\ categoriesTree = NoTree
    /\ categories = <<>>
    /\ TreeSelect_allCategories = <<>>
    /\ rendered = <<>>

\* ---------------------------------------------------- the page of a list
\* A page the backend holds: the ids of its items, the total count, the page
\* index, the page size and the number of pages.
PagesHeld ==
    [items : {[i \in 1..n |-> i] : n \in 0..MaxPage}, total : 0..MaxPage,
     page : 0..MaxPage, size : 1..MaxPage, totalPages : 0..MaxPage]

\* BackendPageResponse<T>: the backend's answer in its own format.
BackendPageResponse(d) ==
    [data |-> d.items, total |-> d.total, page |-> d.page, size |-> d.size,
     totalPages |-> d.totalPages]

\* The answer in the other format: content, totalElements, totalPages, size, number.
ContentPageResponse(d) ==
    [content |-> d.items, totalElements |-> d.total, totalPages |-> d.totalPages,
     size |-> d.size, number |-> d.page]

\* BrandService.getAll, CategoryService.getAll: the response transformed.
getAll_Transforming(response) ==
    [content |-> response.data,
     totalElements |-> response.total,
     totalPages |-> response.totalPages,
     size |-> response.size,
     number |-> response.page,
     first |-> (response.page = 0),
     last |-> (response.page >= response.totalPages - 1),
     empty |-> (Len(response.data) = 0)]

\* BrandService.getAll of the later version: the response as it came.
getAll_PassThrough(response) == response

NoPage == [content |-> <<>>]

Service_getAll_Transforming ==
    /\ pageFromData' = getAll_Transforming(BackendPageResponse(pageData))
    /\ UNCHANGED <<appVars, pagingOthers, pageData, pageFromContent, pagerVars, loadVars>>

Service_getAll_PassThrough ==
    /\ pageFromContent' = getAll_PassThrough(ContentPageResponse(pageData))
    /\ UNCHANGED <<appVars, pagingOthers, pageData, pageFromData, pagerVars, loadVars>>

LoadsAtRest ==
    /\ effectFilters = 0
    /\ productLoads = <<>>
    /\ products = <<>>
    /\ productsLoading = FALSE

PagerAtRest ==
    /\ serverTotal = 0
    /\ currentPage = 0
    /\ pageCache = EmptyList

PagingAtRest ==
    /\ pageData = [items |-> <<>>, total |-> 0, page |-> 0, size |-> 1, totalPages |-> 0]
    /\ pageFromData = NoPage
    /\ pageFromContent = NoPage
    /\ PagerAtRest
    /\ LoadsAtRest

\* ------------------------------------------- the pager of the products page
\* useQuery(['products', filters]) as the pager sees it: the answer cached
\* for each page index of the current filters (none while it loads), of which
\* only totalElements matters here.
productsData == IF currentPage \in DOMAIN pageCache THEN pageCache[currentPage] ELSE 0

\* productsData?.totalElements || 0
totalElements == productsData

\* Math.ceil(totalElements / (filters.size || 10))
totalPages == (totalElements + PageSize - 1) \div PageSize

Min(a, b) == IF a < b THEN a ELSE b
Max(a, b) == IF a > b THEN a ELSE b

pagerOthers == <<appVars, pagingOthers, pageData, pageFromData, pageFromContent, loadVars>>

\* The fetch of the observed key answers; it is sent on the first read of a
\* key and again once the key was invalidated.
Pager_ResolveFetch ==
    /\ IF currentPage \in DOMAIN pageCache THEN pageCache[currentPage] # serverTotal ELSE TRUE
    /\ pageCache' = [i \in DOMAIN pageCache \cup {currentPage} |->
                        IF i = currentPage THEN serverTotal ELSE pageCache[i]]
    /\ UNCHANGED <<pagerOthers, serverTotal, currentPage>>

\* The Previous button, rendered when totalPages > 1.
Pager_Previous ==
    /\ totalPages > 1 /\ currentPage # 0
    /\ currentPage' = Max(0, currentPage - 1)
    /\ UNCHANGED <<pagerOthers, serverTotal, pageCache>>

\* The Next button, rendered when totalPages > 1.
Pager_Next ==
    /\ totalPages > 1 /\ currentPage # totalPages - 1
    /\ currentPage' = Min(totalPages - 1, currentPage + 1)
    /\ UNCHANGED <<pagerOthers, serverTotal, pageCache>>

\* handleSearch / handleFilterChange / clearFilters with a value not chosen
\* before: page 0 of another result, of which nothing is cached.
Pager_handleFilterChange(total) ==
    /\ currentPage' = 0
    /\ serverTotal' = total
    /\ pageCache' = EmptyList
    /\ UNCHANGED pagerOthers

\* deleteMutation of a product of the page shown succeeded: the product is
\* gone, ['products'] is invalidated (the cached pages stay until refetched).
Pager_deleteMutation_onSuccess ==
    /\ currentPage \in DOMAIN pageCache
    /\ pageCache[currentPage] > currentPage * PageSize
    /\ serverTotal > currentPage * PageSize
    /\ serverTotal' = serverTotal - 1
    /\ UNCHANGED <<pagerOthers, currentPage, pageCache>>

\* --------------------------- the products page that loads in an effect
\* The values of the filters: the initial value and the values the search box
\* and the selects can give them.
FilterValues == 0..MaxLoads

loadOthers == <<appVars, pagingOthers, pageData, pageFromData, pageFromContent, pagerVars>>

\* handleSearch / handleFilterChange / clearFilters: setFilters with a new
\* object, and the effect on [filters] calls loadProducts, which runs up to
\* its await: setLoading(true), the request for these filters leaves.
Effect_setFilters(v) ==
    /\ Len(productLoads) < MaxLoads
    /\ effectFilters' = v
    /\ productLoads' = Append(productLoads, v)
    /\ productsLoading' = TRUE
    /\ UNCHANGED <<loadOthers, products>>

\* The answer to the i-th call in flight arrives; loadProducts goes on:
\* setProducts(response.data), the totals, finally setLoading(false).
loadProducts_Resume(i) ==
    /\ i \in DOMAIN productLoads
    /\ products' = <<productLoads[i]>>
    /\ productsLoading' = FALSE
    /\ productLoads' = RemoveAt(productLoads, i)
    /\ UNCHANGED <<loadOthers, effectFilters>>

\* ------------------------------------- the pages that await their requests
\* The categories, products and brands pages that load with useEffect and
\* await the service calls in their handlers; `route` is the page mounted,
\* `error` and `modalMode` its state.

\* closeModal(): the categories and products pages clear the error, the
\* brands page leaves it.
Await_closeModalError(err) == IF route = "brands" THEN err ELSE "null"

\* The load of the mount effect ends: loadCategories / loadProducts / loadBrands.
Await_LoadSuccess ==
    /\ mountLoad
    /\ mountLoad' = FALSE
    /\ listData' = "ok"
    /\ loading' = FALSE
    /\ UNCHANGED <<awaitOthers, modalMode, error, submitting, asyncPc, refData>>

Await_LoadFailure ==
    /\ mountLoad
    /\ mountLoad' = FALSE
    /\ listData' = "failed"
    /\ error' = "Error loading"
    /\ loading' = FALSE
    /\ UNCHANGED <<awaitOthers, modalMode, submitting, asyncPc, refData>>

\* loadInitialData of the products page ends: on failure only console.error.
Await_loadInitialData(outcome) ==
    /\ refData = "loading"
    /\ refData' = outcome
    /\ UNCHANGED <<awaitOthers, modalMode, error, loading, submitting, asyncPc, mountLoad,
                   listData>>

Await_openModal(mode) ==
    /\ modalMode = "none"
    /\ modalMode' = mode
    /\ UNCHANGED <<awaitOthers, error, awaitVars>>

\* The Cancel button of a modal (disabled while submitting).
Await_CancelModal ==
    /\ modalMode # "none" /\ ~submitting
    /\ modalMode' = "none"
    /\ error' = Await_closeModalError(error)
    /\ UNCHANGED <<awaitOthers, awaitVars>>

\* handleSubmit / handleCreateSubmit / handleUpdateSubmit / handleDelete up to
\* the first await.
Await_handleSubmit ==
    /\ modalMode # "none" /\ ~submitting
    /\ submitting' = TRUE
    /\ error' = "null"
    /\ asyncPc' = "mutation"
    /\ UNCHANGED <<awaitOthers, modalMode, loading, mountLoad, listData, refData>>

\* The service call throws: catch, finally.
Await_MutationFailure ==
    /\ asyncPc = "mutation"
    /\ error' = "Error"
    /\ submitting' = FALSE
    /\ asyncPc' = "idle"
    /\ UNCHANGED <<awaitOthers, modalMode, loading, mountLoad, listData, refData>>

\* The service call returns: await loadCategories() runs up to its await.
Await_MutationSuccess ==
    /\ asyncPc = "mutation"
    /\ loading' = TRUE
    /\ error' = "null"
    /\ asyncPc' = "reload"
    /\ UNCHANGED <<awaitOthers, modalMode, submitting, mountLoad, listData, refData>>

\* The reload returns; the handler goes on: closeModal(), finally.
Await_ReloadSuccess ==
    /\ asyncPc = "reload"
    /\ listData' = "ok"
    /\ loading' = FALSE
    /\ modalMode' = "none"
    /\ error' = Await_closeModalError(error)
    /\ submitting' = FALSE
    /\ asyncPc' = "idle"
    /\ UNCHANGED <<awaitOthers, mountLoad, refData>>

\* The reload throws inside loadCategories: its catch sets the error, its
\* finally clears loading, and it returns; the handler goes on: closeModal(),
\* finally.
Await_ReloadFailure ==
    /\ asyncPc = "reload"
    /\ listData' = "failed"
    /\ loading' = FALSE
    /\ modalMode' = "none"
    /\ error' = Await_closeModalError("Error loading")
    /\ submitting' = FALSE
    /\ asyncPc' = "idle"
    /\ UNCHANGED <<awaitOthers, mountLoad, refData>>

AwaitAtRest ==
    /\ loading = FALSE
    /\ submitting = FALSE
    /\ asyncPc = "idle"
    /\ mountLoad = FALSE
    /\ listData = "none"
    /\ refData = "none"

\* ------------------------------------ the attributes of the product edit page
\* A string is the sequence of its characters.
AttributeInputs == {<<>>, <<" ">>, <<"a">>, <<" ", "b", " ">>}
ParamsIds == {"new", "0", "abc", "1"}

\* String.prototype.trim(): the string without its leading and trailing spaces.
RECURSIVE trim(_)
trim(str) ==
    IF str = <<>> THEN <<>>
    ELSE IF Head(str) = " " THEN trim(Tail(str))
    ELSE IF str[Len(str)] = " " THEN trim(SubSeq(str, 1, Len(str) - 1))
    ELSE str

\* const productId = params.id === 'new' ? null : Number(params.id)
productId ==
    CASE paramsId = "new" -> [t |-> "null", n |-> 0]
      [] paramsId = "0" -> [t |-> "number", n |-> 0]
      [] paramsId = "1" -> [t |-> "number", n |-> 1]
      [] OTHER -> [t |-> "NaN", n |-> 0]

\* !productId: null, NaN and 0 are falsy.
noProductId == productId.t # "number" \/ productId.n = 0

setNewAttributeKey(v) ==
    /\ newAttributeKey' = v
    /\ attrCall' = "input"
    /\ UNCHANGED <<attrOthers, error, paramsId, newAttributeValue, attrReqs, attributesFetch>>

setNewAttributeValue(v) ==
    /\ newAttributeValue' = v
    /\ attrCall' = "input"
    /\ UNCHANGED <<attrOthers, error, paramsId, newAttributeKey, attrReqs, attributesFetch>>

\* A variant that sends the key and the value as typed.
handleAddAttribute_NoTrim ==
    /\ attrCall' = "add"
    /\ IF noProductId
       THEN error' = "Product must be created before adding attributes"
            /\ UNCHANGED attrReqs
       ELSE IF trim(newAttributeKey) = <<>> \/ trim(newAttributeValue) = <<>>
       THEN error' = "Both key and value are required" /\ UNCHANGED attrReqs
       ELSE /\ Len(attrReqs) < MaxAttrRequests
            /\ attrReqs' = Append(attrReqs, [productId |-> productId.n,
                                             key |-> newAttributeKey,
                                             value |-> newAttributeValue])
            /\ UNCHANGED error
    /\ UNCHANGED <<attrOthers, paramsId, newAttributeKey, newAttributeValue, attributesFetch>>

handleAddAttribute ==
    /\ attrCall' = "add"
    /\ IF noProductId
       THEN error' = "Product must be created before adding attributes"
            /\ UNCHANGED attrReqs
       ELSE IF trim(newAttributeKey) = <<>> \/ trim(newAttributeValue) = <<>>
       THEN error' = "Both key and value are required" /\ UNCHANGED attrReqs
       ELSE /\ Len(attrReqs) < MaxAttrRequests
            /\ attrReqs' = Append(attrReqs, [productId |-> productId.n,
                                             key |-> trim(newAttributeKey),
                                             value |-> trim(newAttributeValue)])
            /\ UNCHANGED error
    /\ UNCHANGED <<attrOthers, paramsId, newAttributeKey, newAttributeValue, attributesFetch>>

\* createAttributeMutation.onSuccess
CreateAttributeSuccess ==
    /\ attrReqs # <<>>
    /\ attrReqs' = Tail(attrReqs)
    /\ attributesFetch' = "fetching"
    /\ newAttributeKey' = <<>>
    /\ newAttributeValue' = <<>>
    /\ error' = "null"
    /\ attrCall' = "response"
    /\ UNCHANGED <<attrOthers, paramsId>>

\* createAttributeMutation.onError
CreateAttributeError ==
    /\ attrReqs # <<>>
    /\ attrReqs' = Tail(attrReqs)
    /\ error' = "Error creating attribute"
    /\ attrCall' = "response"
    /\ UNCHANGED <<attrOthers, paramsId, newAttributeKey, newAttributeValue, attributesFetch>>

\* The response of productAttributeService.getByProductId arrives.
AttributesResolve ==
    /\ attributesFetch = "fetching"
    /\ attributesFetch' = "idle"
    /\ attrCall' = "response"
    /\ UNCHANGED <<attrOthers, error, paramsId, newAttributeKey, newAttributeValue, attrReqs>>

\* defaultValues of useForm of the edit page: the text fields by their length.
defaultValues == [title |-> 0, barcode |-> 0, categoryId |-> 0, status |-> "DRAFT"]

FormAtRest ==
    /\ formValues = defaultValues
    /\ formErrors = {}

AttributesAtRest ==
    /\ paramsId = "new"
    /\ newAttributeKey = <<>>
    /\ newAttributeValue = <<>>
    /\ attrReqs = <<>>
    /\ attributesFetch = "idle"
    /\ attrCall = "none"
    /\ FormAtRest

\* ------------------------------------------- the form of the product edit page
\* A text field is held by its length; the status by the value of its option.
TitleLengths == {0, 1, MaxTitleLength + 1}
BarcodeLengths == {0, 1}
StatusOptions == {"DRAFT", "PUBLISHED", "ARCHIVED"}

\* The schemas, as the fields of `data` that fail them.
statusEnum == {"DRAFT", "ACTIVE", "ARCHIVED"}

createProductSchema(data) ==
    {f \in DOMAIN data :
        \/ f = "title" /\ (data.title < 1 \/ data.title > MaxTitleLength)
        \/ f = "barcode" /\ data.barcode < 1
        \/ f = "categoryId" /\ data.categoryId < 1
        \/ f = "status" /\ data.status \notin statusEnum}

updateProductSchema(data) ==
    {f \in DOMAIN data :
        \/ f = "title" /\ data.title > MaxTitleLength
        \/ f = "status" /\ data.status \notin statusEnum}

\* isEdit = productId !== null
isEdit == productId.t # "null"

\* zodResolver(isEdit ? updateProductSchema : createProductSchema)
resolver(data) == IF isEdit THEN updateProductSchema(data) ELSE createProductSchema(data)

\* The fields under which the form renders errors.<field>.message.
InlineErrorFields == {"title", "barcode", "categoryId"}

\* An input, the TreeSelect or a select changes the value of its field.
EditForm_setValue(field, value) ==
    /\ route = "edit" /\ ~isPending
    /\ formValues[field] # value
    /\ formValues' = [formValues EXCEPT ![field] = value]
    /\ UNCHANGED <<appVars, attrOthersTools, paramsId, newAttributeKey, newAttributeValue, attrReqs,
                   attributesFetch, attrCall, formErrors>>

\* The submit button (disabled while submitting): handleSubmit validates, and
\* calls onSubmit(data) when nothing failed; onSubmit runs up to its await.
EditForm_handleSubmit ==
    /\ route = "edit" /\ ~isPending
    /\ formErrors' = resolver(formValues)
    /\ IF resolver(formValues) = {}
       THEN /\ error' = "null"
            /\ IF isEdit /\ ~noProductId
               THEN Mutate("update", productId.n, 0)
               ELSE Mutate("create", 0, 0)
       ELSE UNCHANGED <<error, mutation>>
    /\ UNCHANGED <<filterVars, cacheVars, serverCats, treeData, modalMode, parentId, formParent,
                   mutCount, listVars, attrOthersTools, paramsId, newAttributeKey,
                   newAttributeValue, attrReqs, attributesFetch, attrCall, formValues>>

\* ------------------------------------- the image form of the product edit page
\* The texts typed into the URL fields: nothing, a blank, a word that is no
\* URL (with spaces around it), a URL. The scheme is written as one character.
ImageUrlInputs == {<<>>, <<" ">>, <<" ", "a", " ">>, <<"http://", "a">>}

\* Math.max(...currentImages.map(img => img.order)), 0 for no image
maxOrder(list) ==
    IF DOMAIN list = {} THEN 0
    ELSE CHOOSE m \in {list[i] : i \in DOMAIN list} : \A i \in DOMAIN list : list[i] <= m

\* addImageMutation.isPending, updateImageMutation.isPending
isPendingImage(kind) == \E i \in DOMAIN imageReqs : imageReqs[i].kind = kind

setNewImageUrl(v) ==
    /\ route = "edit"
    /\ newImageUrl' = v
    /\ UNCHANGED <<appVars, imageOthers, images, imagesFetch, serverImages, draggedImageId,
                   imageReqs, imageSent, imageEvent, editingImage, editImageUrl>>

\* handleAddImage, behind a button disabled while an add is pending (the alt
\* text, sent along trimmed, is left out).
handleAddImage ==
    /\ route = "edit"
    /\ ~isPendingImage("add")
    /\ trim(newImageUrl) # <<>> /\ ~noProductId
    /\ imageSent < MaxImageRequests
    /\ imageSent' = imageSent + 1
    /\ imageReqs' = Append(imageReqs,
          [kind |-> "add", id |-> 0, imageUrl |-> trim(newImageUrl),
           order |-> maxOrder(images) + 1, imageOrders |-> EmptyList])
    /\ UNCHANGED <<appVars, imageOthers, imageFormVars, images, imagesFetch, serverImages,
                   draggedImageId, imageEvent>>

\* handleEditImage(image): the fields take the values the image has.
handleEditImage(id, storedUrl) ==
    /\ route = "edit"
    /\ id \in DOMAIN images
    /\ editingImage' = id
    /\ editImageUrl' = storedUrl
    /\ UNCHANGED <<appVars, imageOthers, images, imagesFetch, serverImages, draggedImageId,
                   imageReqs, imageSent, imageEvent, newImageUrl>>

setEditImageUrl(v) ==
    /\ route = "edit"
    /\ editingImage # 0
    /\ editImageUrl' = v
    /\ UNCHANGED <<appVars, imageOthers, images, imagesFetch, serverImages, draggedImageId,
                   imageReqs, imageSent, imageEvent, newImageUrl, editingImage>>

handleCancelEditImage ==
    /\ route = "edit"
    /\ editingImage # 0
    /\ editingImage' = 0
    /\ editImageUrl' = <<>>
    /\ UNCHANGED <<appVars, imageOthers, images, imagesFetch, serverImages, draggedImageId,
                   imageReqs, imageSent, imageEvent, newImageUrl>>

\* handleUpdateImage, behind a button disabled while an update is pending.
handleUpdateImage ==
    /\ route = "edit"
    /\ ~isPendingImage("update")
    /\ editingImage # 0 /\ trim(editImageUrl) # <<>>
    /\ imageSent < MaxImageRequests
    /\ imageSent' = imageSent + 1
    /\ imageReqs' = Append(imageReqs,
          [kind |-> "update", id |-> editingImage, imageUrl |-> trim(editImageUrl),
           order |-> 0, imageOrders |-> EmptyList])
    /\ UNCHANGED <<appVars, imageOthers, imageFormVars, images, imagesFetch, serverImages,
                   draggedImageId, imageEvent>>

\* ------------------------------------------------------ the application
InitialCats == [i \in 1..(NumCat - 1) |-> 0]

\* The page state of a page that has just mounted.
PageAtRest ==
    /\ modalMode = "none"
    /\ parentId = 0
    /\ formParent = 0
    /\ error = "null"
    /\ mutation = NoMutation
    /\ mutCount = 0
    /\ filters = InitialFilters
    /\ searchInput = ""
    /\ selectedProduct = 0
    /\ selectedBrand = 0

\* The parts taken on their own below, untouched.
ToolsAtRest == ImagesAtRest /\ TreesAtRest /\ PagingAtRest /\ AwaitAtRest /\ AttributesAtRest

\* The application opened on one of its list pages.
Init ==
    /\ route \in {"categories", "products", "brands"}
    /\ queries = Subscribe(EmptyList, PageKeys(route, InitialFilters), {})
    /\ serverCats = InitialCats
    /\ allCategories = EmptyList
    /\ treeData = EmptyList
    /\ selectedCategory = NoCat
    /\ available = NotCalled
    /\ walk = NoWalk
    /\ PageAtRest
    /\ ToolsAtRest

CategoriesPage ==
    \/ \E p \in {0} \cup CatIds : openAddModal(p)
    \/ \E c \in CatIds : openEditModal(c)
    \/ \E c \in CatIds : openDeleteModal(c)
    \/ \E c \in CatIds : openMoveModal(c)
    \/ CancelModal
    \/ \E p \in {0} \cup CatIds : SelectMoveParent(p)
    \/ \E p \in {0} \cup CatIds : SelectFormParent(p)
    \/ onSubmit
    \/ handleDelete
    \/ handleMove
    \/ CategoryMutationSuccess
    \/ CategoryMutationError

\* The products page with its search box left empty and its selects untouched
\* (SpecFilters below exercises them).
ProductsPage ==
    \/ handleSearch
    \/ clearFilters
    \/ Products_openAddModal
    \/ \E product \in ProductIds : Products_openEditModal(product)
    \/ \E product \in ProductIds : Products_openDeleteModal(product)
    \/ Products_CancelModal
    \/ handleCreateSubmit
    \/ handleUpdateSubmit
    \/ Products_handleDelete
    \/ ProductMutationSuccess
    \/ ProductMutationError
    \/ ViewProduct

ProductPages ==
    \/ EditProduct
    \/ ProductEdit_onSubmit
    \/ ProductEdit_SubmitSuccess
    \/ ProductEdit_SubmitError
    \/ ProductEdit_Cancel

BrandsPage ==
    \/ Brands_openAddModal
    \/ \E brand \in BrandIds : Brands_openEditModal(brand)
    \/ \E brand \in BrandIds : Brands_openDeleteModal(brand)
    \/ Brands_CancelModal
    \/ handleAddSubmit
    \/ handleEditSubmit
    \/ Brands_handleDelete
    \/ BrandMutationSuccess
    \/ BrandMutationError

QueryClient ==
    \/ \E k \in DOMAIN queries : ResolveFetch(k)
    \/ \E k \in DOMAIN queries : DropAbandoned(k)

Next == CategoriesPage \/ ProductsPage \/ ProductPages \/ BrandsPage \/ QueryClient

Spec == Init /\ [][Next]_vars

\* ---- the products page's search and filter bar: every sequence of searches,
\* filter choices and clears, and the query keys they read
NextFilters ==
    \/ \E v \in SearchInputs : setSearchInput(v)
    \/ handleSearch
    \/ \E key \in {"categoryId", "brandId"} : \E value \in {0} \cup CategoryFilterIds :
            handleFilterChange(key, value)
    \/ clearFilters

\* The application opened on the products page.
InitFilters == Init /\ route = "products"

SpecFilters == InitFilters /\ [][NextFilters]_vars

\* ---- the filter as a function of its inputs: every list, every selection
InitParents ==
    /\ allCategories \in CategoryLists
    /\ selectedCategory \in {NoCat} \cup
          {[id |-> i, parentCategoryId |-> IF i \in DOMAIN allCategories
                                            THEN allCategories[i] ELSE 0] : i \in CatIds}
    /\ available = NotCalled
    /\ walk = NoWalk
    /\ route = "none"
    /\ queries = EmptyList
    /\ serverCats = EmptyList
    /\ treeData = EmptyList
    /\ PageAtRest
    /\ ToolsAtRest

NextParents ==
    \/ RenderParentOptions
    \/ \E cat \in CatIds : WalkBegin(cat)
    \/ WalkStep

SpecParents == InitParents /\ [][NextParents]_vars

\* ---- the image section of the edit page of a product with images 1..n in
\* the orders 1..n
AppAtRest ==
    /\ queries = EmptyList
    /\ serverCats = EmptyList
    /\ allCategories = EmptyList
    /\ treeData = EmptyList
    /\ selectedCategory = NoCat
    /\ available = NotCalled
    /\ walk = NoWalk
    /\ PageAtRest

InitImages ==
    /\ route = "edit"
    /\ AppAtRest
    /\ \E n \in 0..NumImages : serverImages = [i \in 1..n |-> i]
    /\ images = EmptyList
    /\ imagesFetch = "fetching"
    /\ draggedImageId = 0
    /\ imageReqs = <<>>
    /\ imageSent = 0
    /\ imageEvent = NoEvent
    /\ newImageUrl = <<>>
    /\ editingImage = 0
    /\ editImageUrl = <<>>
    /\ TreesAtRest
    /\ PagingAtRest
    /\ AwaitAtRest
    /\ AttributesAtRest

NextImages ==
    \/ \E imageId \in ImageIds : handleDragStart(imageId)
    \/ \E targetImageId \in ImageIds : handleDrop(targetImageId)
    \/ \E id \in ImageIds : handleDeleteImage(id)
    \/ \E i \in 1..MaxImageRequests : ImageRequestSuccess(i)
    \/ \E i \in 1..MaxImageRequests : ImageRequestError(i)
    \/ ImagesResolve

SpecImages == InitImages /\ [][NextImages]_vars

\* ---- the flatteners on every category tree of up to NumNodes nodes
InitTrees ==
    /\ route = "none"
    /\ AppAtRest
    /\ ImagesAtRest
    /\ PagingAtRest
    /\ AwaitAtRest
    /\ AttributesAtRest
    /\ categoryList = EmptyList
    /\ categoriesTree \in CategoryTrees
    /\ categories = NotYet
    /\ TreeSelect_allCategories = <<0>>
    /\ rendered = NotYet

NextTrees ==
    \/ ProductsPage_flatten
    \/ TreeSelect_flatten
    \/ TreeSelect_render

SpecTrees == InitTrees /\ [][NextTrees]_vars

\* ---- a tree built from every flat list of up to NumNodes categories, then
\* flattened
InitBuild ==
    /\ route = "none"
    /\ AppAtRest
    /\ ImagesAtRest
    /\ PagingAtRest
    /\ AwaitAtRest
    /\ AttributesAtRest
    /\ categoryList \in FlatCategoryLists
    /\ categoriesTree = NoTree
    /\ categories = NotYet
    /\ TreeSelect_allCategories = <<0>>
    /\ rendered = NotYet

NextBuild ==
    \/ LoadTree
    \/ ProductsPage_flatten
    \/ TreeSelect_flatten
    \/ TreeSelect_render

SpecBuild == InitBuild /\ [][NextBuild]_vars

\* ---- the two getAll on every page of up to MaxPage items
InitPaging ==
    /\ route = "none"
    /\ AppAtRest
    /\ ImagesAtRest
    /\ TreesAtRest
    /\ AwaitAtRest
    /\ AttributesAtRest
    /\ pageData \in PagesHeld
    /\ pageFromData = NoPage
    /\ pageFromContent = NoPage
    /\ PagerAtRest
    /\ LoadsAtRest

NextPaging ==
    \/ Service_getAll_Transforming
    \/ Service_getAll_PassThrough

SpecPaging == InitPaging /\ [][NextPaging]_vars

\* ---- the pager of the products page, opened on a list of any length
InitPager ==
    /\ route = "products"
    /\ AppAtRest
    /\ ImagesAtRest
    /\ TreesAtRest
    /\ AwaitAtRest
    /\ AttributesAtRest
    /\ pageData = [items |-> <<>>, total |-> 0, page |-> 0, size |-> 1, totalPages |-> 0]
    /\ pageFromData = NoPage
    /\ pageFromContent = NoPage
    /\ serverTotal \in 0..MaxProducts
    /\ currentPage = 0
    /\ pageCache = EmptyList
    /\ LoadsAtRest

NextPager ==
    \/ Pager_ResolveFetch
    \/ Pager_Previous
    \/ Pager_Next
    \/ \E total \in 0..MaxProducts : Pager_handleFilterChange(total)
    \/ Pager_deleteMutation_onSuccess

SpecPager == InitPager /\ [][NextPager]_vars

\* ---- the products page that loads in an effect, just mounted: the effect
\* has called loadProducts with the initial filters
InitLoads ==
    /\ route = "products"
    /\ AppAtRest
    /\ ImagesAtRest
    /\ TreesAtRest
    /\ AwaitAtRest
    /\ AttributesAtRest
    /\ pageData = [items |-> <<>>, total |-> 0, page |-> 0, size |-> 1, totalPages |-> 0]
    /\ pageFromData = NoPage
    /\ pageFromContent = NoPage
    /\ PagerAtRest
    /\ effectFilters = 0
    /\ productLoads = <<0>>
    /\ products = <<>>
    /\ productsLoading = TRUE

NextLoads ==
    \/ \E v \in FilterValues : Effect_setFilters(v)
    \/ \E i \in 1..MaxLoads : loadProducts_Resume(i)

SpecLoads == InitLoads /\ [][NextLoads]_vars

\* ---- the form of the edit page, for every route parameter
InitEditForm ==
    /\ route = "edit"
    /\ AppAtRest
    /\ ImagesAtRest
    /\ TreesAtRest
    /\ PagingAtRest
    /\ AwaitAtRest
    /\ paramsId \in ParamsIds
    /\ newAttributeKey = <<>>
    /\ newAttributeValue = <<>>
    /\ attrReqs = <<>>
    /\ attributesFetch = "idle"
    /\ attrCall = "none"
    /\ FormAtRest

NextEditForm ==
    \/ \E v \in TitleLengths : EditForm_setValue("title", v)
    \/ \E v \in BarcodeLengths : EditForm_setValue("barcode", v)
    \/ \E v \in {0} \cup CategoryFilterIds : EditForm_setValue("categoryId", v)
    \/ \E v \in StatusOptions : EditForm_setValue("status", v)
    \/ EditForm_handleSubmit
    \/ ProductEdit_SubmitSuccess
    \/ ProductEdit_SubmitError

SpecEditForm == InitEditForm /\ [][NextEditForm]_vars

\* ---- an await-based list page, just mounted
InitAwait ==
    /\ route \in {"categories", "products", "brands"}
    /\ AppAtRest
    /\ ImagesAtRest
    /\ TreesAtRest
    /\ PagingAtRest
    /\ AttributesAtRest
    /\ loading = TRUE
    /\ submitting = FALSE
    /\ asyncPc = "idle"
    /\ mountLoad = TRUE
    /\ listData = "loading"
    /\ refData = IF route = "products" THEN "loading" ELSE "none"

NextAwait ==
    \/ Await_LoadSuccess
    \/ Await_LoadFailure
    \/ \E outcome \in {"ok", "failed"} : Await_loadInitialData(outcome)
    \/ \E mode \in {"add", "edit", "delete"} : Await_openModal(mode)
    \/ Await_CancelModal
    \/ Await_handleSubmit
    \/ Await_MutationFailure
    \/ Await_MutationSuccess
    \/ Await_ReloadSuccess
    \/ Await_ReloadFailure

SpecAwait == InitAwait /\ [][NextAwait]_vars

\* ---- the attribute form of the edit page, for every route parameter
InitAttributes ==
    /\ route = "edit"
    /\ AppAtRest
    /\ ImagesAtRest
    /\ TreesAtRest
    /\ PagingAtRest
    /\ AwaitAtRest
    /\ paramsId \in ParamsIds
    /\ newAttributeKey = <<>>
    /\ newAttributeValue = <<>>
    /\ attrReqs = <<>>
    /\ attributesFetch = IF paramsId = "new" THEN "idle" ELSE "fetching"
    /\ attrCall = "none"
    /\ FormAtRest

NextAttributes ==
    \/ \E v \in AttributeInputs : setNewAttributeKey(v)
    \/ \E v \in AttributeInputs : setNewAttributeValue(v)
    \/ handleAddAttribute
    \/ CreateAttributeSuccess
    \/ CreateAttributeError
    \/ AttributesResolve

SpecAttributes == InitAttributes /\ [][NextAttributes]_vars

\* ---- the image form of the edit page of a product with images 1..n in the
\* orders 1..n
InitImageForm ==
    /\ route = "edit"
    /\ AppAtRest
    /\ \E n \in 0..NumImages : serverImages = [i \in 1..n |-> i]
    /\ images = EmptyList
    /\ imagesFetch = "fetching"
    /\ draggedImageId = 0
    /\ imageReqs = <<>>
    /\ imageSent = 0
    /\ imageEvent = NoEvent
    /\ newImageUrl = <<>>
    /\ editingImage = 0
    /\ editImageUrl = <<>>
    /\ TreesAtRest
    /\ PagingAtRest
    /\ AwaitAtRest
    /\ paramsId \in {"1", "0"}
    /\ newAttributeKey = <<>>
    /\ newAttributeValue = <<>>
    /\ attrReqs = <<>>
    /\ attributesFetch = "idle"
    /\ attrCall = "none"
    /\ FormAtRest

NextImageForm ==
    \/ \E v \in ImageUrlInputs : setNewImageUrl(v)
    \/ handleAddImage
    \/ \E id \in DOMAIN images, url \in ImageUrlInputs : handleEditImage(id, url)
    \/ \E v \in ImageUrlInputs : setEditImageUrl(v)
    \/ handleCancelEditImage
    \/ handleUpdateImage
    \/ \E i \in 1..MaxImageRequests : ImageRequestSuccess(i)
    \/ \E i \in 1..MaxImageRequests : ImageRequestError(i)
    \/ ImagesResolve

SpecImageForm == InitImageForm /\ [][NextImageForm]_vars

\* ------------------------------------------- the filter's claims (C2..C5)
\* C2: on a list whose parent links form a forest, getAvailableParents returns
\* and holds no descendant of the selected category.
C2_DescendantsNotOffered ==
    (IsForest(allCategories) /\ selectedCategory # NoCat /\ available # NotCalled)
        => /\ available.st = "returned"
           /\ \A d \in DOMAIN allCategories :
                IsDescendantOf(allCategories, d, selectedCategory.id) => d \notin available.ids

\* The chain 1 <- 2 <- 3 with category 1 selected: neither 2 nor 3 is offered.
C2_Witness ==
    /\ allCategories = (1 :> 0 @@ 2 :> 1 @@ 3 :> 2)
    /\ selectedCategory.id = 1
    /\ available = Returned({})

\* C3: whatever the list, a result of getAvailableParents never holds the
\* selected category itself.
C3_NoSelfParent ==
    (selectedCategory # NoCat /\ available.st = "returned")
        => selectedCategory.id \notin available.ids

C3_Witness ==
    /\ selectedCategory.id \in DOMAIN allCategories
    /\ available.st = "returned"
    /\ available.ids # {}

\* C4: for every list, every category that is neither the selected one nor a
\* descendant of it is in the result of getAvailableParents.
C4_NonDescendantsOffered ==
    (selectedCategory # NoCat /\ available # NotCalled)
        => \A n \in DOMAIN allCategories :
             (n # selectedCategory.id /\ ~IsDescendantOf(allCategories, n, selectedCategory.id))
                => n \in available.ids

\* C5: the ancestor walk makes at most as many calls as there are categories
\* and never ends in the engine's stack overflow, whatever the list.
C5_WalkBounded ==
    /\ walk.depth <= Cardinality(DOMAIN allCategories)
    /\ walk.st # "RangeError"
    /\ available.st # "RangeError"

\* --------------------------------------------- the pages' claims (C1, ...)
\* C1: no request that changes a category's parent (move, or update carrying
\* parentCategoryId) leaves with a new parent that is the category itself or
\* one of its descendants in the loaded list.
C1_NoInvalidMoveIssued ==
    [][(route = "categories" /\ mutation.status = "idle" /\ mutation'.status = "pending"
            /\ mutation'.kind \in {"move", "update"})
        => /\ mutation'.newParent # mutation'.id
           /\ ~IsDescendantOf(allCategories, mutation'.newParent, mutation'.id)]_vars

\* The list pages; the query family of each has the page's name.
ListPages == {"products", "brands", "categories"}

\* This step is the success of a mutation of list page `page`: its onSuccess ran.
MutationSucceeded(page) ==
    /\ route = page /\ route' = page
    /\ isPending
    /\ mutCount' = mutCount + 1

\* C6: when a mutation of a list page succeeds, the step that closes the modal
\* leaves every entry of the page's query family marked invalidated: the modal
\* never closes on a success with an entry of the family still marked fresh.
C6_InvalidatedBeforeClose ==
    [][\A page \in ListPages :
         MutationSucceeded(page)
            => /\ modalMode' = "none"
               /\ \A k \in DOMAIN queries' :
                    k.family = page => queries'[k].isInvalidated]_vars

\* A product mutation has succeeded on the products page: the modal is closed
\* and the list entry, fetched before the mutation, is invalidated and refetched.
C6_Witness ==
    /\ route = "products" /\ mutCount = 1 /\ modalMode = "none"
    /\ \E k \in DOMAIN queries :
         /\ k.family = "products"
         /\ queries[k].isInvalidated
         /\ queries[k].data = "pre"
         /\ queries[k].fetch = "post"

\* C7: when onSubmit of the product edit form succeeds and navigates to
\* /products, no entry of the product list or of the product's detail that
\* holds data fetched before the mutation is left to be served as fresh: each
\* is invalidated or being fetched anew.
C7_InvalidatedBeforeNavigation ==
    [][(route = "edit" /\ route' = "products" /\ mutCount' = mutCount + 1)
        => \A k \in DOMAIN queries' :
             (k.family \in {"products", "product"} /\ queries'[k].data = "pre")
                => (queries'[k].isInvalidated \/ queries'[k].fetch = "post")]_vars

Untouched(e1, e2) ==
    /\ e1.isInvalidated = e2.isInvalidated
    /\ e1.abandoned = e2.abandoned
    /\ (e1.fetch = "idle") <=> (e2.fetch = "idle")
    /\ (e1.data = "none") <=> (e2.data = "none")

\* C9: after the invalidation of the 'products' family, the next read of every
\* products key awaits a fetch issued after the invalidation, whatever the
\* entry's state was, and the entries of the other families are as they were.
C9_NextReadFetchesAfresh ==
    [][MutationSucceeded("products")
        => /\ \A k \in DOMAIN queries' :
                k.family = "products" => Subscribe(queries', {k}, {})[k].fetch = "post"
           /\ \A k \in DOMAIN queries :
                k.family # "products" => Untouched(queries'[k], queries[k])]_vars

\* The logical query of a hashed filter object: an empty keyword is no keyword.
LogicalQuery(h) == [fld \in {x \in DOMAIN h : x = "keyword" => h[x] # ""} |-> h[fld]]

\* C10: two products keys that denote the same logical query are one cache
\* entry: the cache never holds two entries for one logical query.
C10_SameQuerySameEntry ==
    \A k1, k2 \in DOMAIN queries :
        (k1.family = "products" /\ k2.family = "products"
            /\ LogicalQuery(k1.sub) = LogicalQuery(k2.sub))
        => k1 = k2

\* This step is a call of handleDrop that sent a request.
DropSentRequest ==
    /\ imageEvent'.op = "drop"
    /\ Len(imageReqs') > Len(imageReqs)

\* C11: a drop of image A onto another image B sends a reorder request with
\* exactly two entries, A -> the loaded order of B and B -> the loaded order
\* of A: applied to the loaded list it exchanges the orders of A and B and
\* leaves the order of every other image as it is.
C11_DropSwapsTwoOrders ==
    [][DropSentRequest
        => LET A == draggedImageId
               B == imageEvent'.id
               req == imageReqs'[Len(imageReqs')]
           IN  /\ req.kind = "reorder"
               /\ DOMAIN req.imageOrders = {A, B}
               /\ req.imageOrders[A] = images[B]
               /\ req.imageOrders[B] = images[A]
               /\ \A i \in DOMAIN images \ {A, B} :
                    ApplyOrders(images, req.imageOrders)[i] = images[i]]_vars

\* The first of three images was dropped onto the third: the request in
\* flight exchanges their orders and names no other image.
C11_Witness ==
    /\ Cardinality(DOMAIN images) = 3
    /\ imageEvent = [op |-> "drop", id |-> 3]
    /\ Len(imageReqs) = 1
    /\ imageReqs[1].kind = "reorder"
    /\ imageReqs[1].imageOrders = (1 :> images[3] @@ 3 :> images[1])

\* C12: a call of handleDrop sends a request only if an image is being
\* dragged, it is not the target, and both are in the loaded image list.
C12_NoOpDropSendsNothing ==
    [][DropSentRequest
        => /\ draggedImageId # 0
           /\ draggedImageId # imageEvent'.id
           /\ draggedImageId \in DOMAIN images
           /\ imageEvent'.id \in DOMAIN images]_vars

\* An image was dropped onto itself and no request left.
C12_Witness ==
    /\ imageEvent.op = "drop"
    /\ draggedImageId = imageEvent.id
    /\ imageReqs = <<>>
    /\ imagesFetch = "idle"

\* ------------------------------------------------ the flatteners' claims
ElementsOf(seq) == {seq[i] : i \in DOMAIN seq}
TreeNodes(tree) ==
    ElementsOf(tree.roots)
        \cup UNION {ElementsOf(tree.subCategories[x]) : x \in DOMAIN tree.subCategories}
RECURSIVE DescendantsOf(_, _)
DescendantsOf(tree, x) ==
    LET cs == IF x \in DOMAIN tree.subCategories
              THEN ElementsOf(tree.subCategories[x]) ELSE {}
    IN  cs \cup UNION {DescendantsOf(tree, c) : c \in cs}
SiblingLists(tree) ==
    {tree.roots} \cup {tree.subCategories[x] : x \in DOMAIN tree.subCategories}

\* flat holds every node of the tree once, a node before its descendants, and
\* a sibling with all its descendants before the siblings stored after it.
IsPreOrder(tree, flat) ==
    /\ Len(flat) = Cardinality(TreeNodes(tree))
    /\ ElementsOf(flat) = TreeNodes(tree)
    /\ \A i, j \in DOMAIN flat : flat[j] \in DescendantsOf(tree, flat[i]) => i < j
    /\ \A cs \in SiblingLists(tree) : \A a, b \in DOMAIN cs :
          a < b => \A i, j \in DOMAIN flat :
                      (flat[i] \in {cs[a]} \cup DescendantsOf(tree, cs[a]) /\ flat[j] = cs[b])
                          => i < j

IdsOf(flat) == [i \in DOMAIN flat |-> flat[i].id]

\* C13: on every category tree, the flattenCategories of the products page
\* and that of the product edit page return every node of the tree exactly
\* once, in pre-order: a node before all of its descendants, siblings in their
\* stored order.
C13_FlattenIsPreOrder ==
    /\ categories # NotYet => IsPreOrder(categoriesTree, IdsOf(categories))
    /\ TreeSelect_allCategories # <<0>>
          => IsPreOrder(categoriesTree, TreeSelect_allCategories)

\* Both pages flattened a tree of three nodes with a node that has a child
\* and a sibling stored after it.
C13_Witness ==
    /\ categories # NotYet
    /\ TreeSelect_allCategories # <<0>>
    /\ Len(TreeSelect_allCategories) = 3
    /\ Len(categoriesTree.roots) = 2
    /\ hasSubCategories(categoriesTree, categoriesTree.roots[1])

\* C14: the flatten of the products page gives level 0 to every root and the
\* level of its parent plus one to every child, and emits the nodes in the
\* order of the plain flatten of the product edit page (and of the buttons
\* renderTreeNode draws, which carry the same levels).
C14_LevelsFollowDepth ==
    categories # NotYet
        => /\ \A i \in DOMAIN categories :
                categories[i].id \in ElementsOf(categoriesTree.roots)
                    => categories[i].level = 0
           /\ \A i, j \in DOMAIN categories :
                (/\ categories[i].id \in DOMAIN categoriesTree.subCategories
                 /\ categories[j].id
                        \in ElementsOf(categoriesTree.subCategories[categories[i].id]))
                    => categories[j].level = categories[i].level + 1
           /\ TreeSelect_allCategories # <<0>>
                => IdsOf(categories) = TreeSelect_allCategories
           /\ rendered # NotYet => rendered = categories

\* A chain of three nodes was flattened by both pages and drawn: the levels
\* are 0, 1, 2.
C14_Witness ==
    /\ TreeSelect_allCategories # <<0>>
    /\ rendered # NotYet
    /\ Len(categories) = 3
    /\ categories[3].level = 2

\* C15: for every flat category list with a forest structure, the flatten of
\* the tree built from it holds the records of the list, each once: it is a
\* permutation of the list.
C15_FlattenOfBuiltTreeIsPermutation ==
    categoriesTree = buildTree(categoryList)
        => /\ TreeSelect_allCategories # <<0>>
                => /\ Len(TreeSelect_allCategories) = Cardinality(DOMAIN categoryList)
                   /\ ElementsOf(TreeSelect_allCategories) = DOMAIN categoryList
           /\ categories # NotYet
                => /\ Len(categories) = Cardinality(DOMAIN categoryList)
                   /\ ElementsOf(IdsOf(categories)) = DOMAIN categoryList

\* A list of three categories, one below another, was built into a tree and
\* flattened by both pages.
C15_Witness ==
    /\ Cardinality(DOMAIN categoryList) = 3
    /\ \E i \in DOMAIN categoryList : categoryList[i].parentId # 0
    /\ categoriesTree = buildTree(categoryList)
    /\ Len(TreeSelect_allCategories) = 3
    /\ Len(categories) = 3

\* C16: for the same page held by the backend, the page object the list
\* service hands to the UI is the same whether the answer came in the
\* {data, total, page, size, totalPages} format or in the {content,
\* totalElements, totalPages, size, number} format: same items, counts, page
\* index and size, and the flags first (page index 0), last (page index >=
\* totalPages - 1) and empty (no items).
C16_SamePageObject ==
    (pageFromData # NoPage /\ pageFromContent # NoPage)
        => /\ pageFromContent = pageFromData
           /\ pageFromData.first = (pageData.page = 0)
           /\ pageFromData.last = (pageData.page >= pageData.totalPages - 1)
           /\ pageFromData.empty = (pageData.items = <<>>)

\* C19: when the page that consumes a list fetch is torn down while the fetch
\* is in flight, the response that arrives afterwards is discarded: it writes
\* nothing to the cache entry of the fetch.
C19_ResponseAfterTeardownDiscarded ==
    [][\A k \in DOMAIN queries :
          (/\ k \notin ActiveKeys
           /\ route \in {"detail", "edit"}
           /\ queries[k].fetch # "idle"
           /\ queries'[k].fetch = "idle")
              => queries'[k].data = queries[k].data]_vars

\* C17: whenever a list or reference-data fetch fails, the page is left with
\* a user-visible error message.
C17_FailedFetchShowsError ==
    [][((listData' = "failed" /\ (mountLoad # mountLoad' \/ asyncPc # asyncPc'))
        \/ (refData' = "failed" /\ refData # "failed"))
          => error' # "null"]_vars

\* C18: on the categories and products pages, when the mutation of a submit
\* handler succeeded and the reload after it failed, the error of the reload
\* is set when the handler has finished.
C18_ReloadErrorSurvivesCloseModal ==
    [][(/\ route \in {"categories", "products"}
        /\ asyncPc = "reload" /\ asyncPc' = "idle"
        /\ listData' = "failed")
          => error' # "null"]_vars

\* C20: handleAddAttribute sends a create-attribute request only when the
\* page has a product id and the key and the value are non-empty after
\* trimming, and the request carries that product id with the trimmed key and
\* value; otherwise it sends nothing and sets an error message.
C20_AddAttributeValidates ==
    [][attrCall' = "add"
        => IF /\ ~noProductId
              /\ trim(newAttributeKey) # <<>>
              /\ trim(newAttributeValue) # <<>>
           THEN attrReqs' = Append(attrReqs, [productId |-> productId.n,
                                              key |-> trim(newAttributeKey),
                                              value |-> trim(newAttributeValue)])
           ELSE attrReqs' = attrReqs /\ error' # "null"]_vars

\* An attribute typed with spaces around its value was added: the request in
\* flight carries the value without them.
C20_Witness ==
    /\ attrCall = "add"
    /\ newAttributeValue = <<" ", "b", " ">>
    /\ attrReqs = <<[productId |-> 1, key |-> <<"a">>, value |-> <<"b">>]>>

\* A text is a URL: a scheme followed by something.
WellFormedUrl(str) == Len(str) >= 2 /\ str[1] = "http://"

\* C21: no add-image and no update-image request is on its way with an image
\* URL that is empty or malformed.
C21_NoRequestWithBadUrl ==
    \A i \in DOMAIN imageReqs :
        imageReqs[i].kind \in {"add", "update"} => WellFormedUrl(imageReqs[i].imageUrl)

\* C27: every add-image request carries an order above the order of every
\* image the product has at the time, also when the image list on the page
\* has not been fetched again since the last addition.
C27_AddOrderAboveExisting ==
    [][\A i \in DOMAIN imageReqs' :
          (i \notin DOMAIN imageReqs /\ imageReqs'[i].kind = "add")
              => \A j \in DOMAIN serverImages : imageReqs'[i].order > serverImages[j]]_vars

\* C24: the orders of the images of the product stay pairwise distinct under
\* any sequence of drag-and-drop reorders, a drop made from a list that has
\* not been fetched again since the last reorder included.
C24_OrdersStayDistinct ==
    \A i, j \in DOMAIN serverImages : i # j => serverImages[i] # serverImages[j]

\* C28: after every drop that handleDrop handled, no image is marked as
\* being dragged.
C28_DropClearsDragged == [][imageEvent'.op = "drop" => draggedImageId' = 0]_vars

\* The modal a mutation is sent from, and the entity the modal is open on.
ModalOf(kind) == IF kind = "create" THEN "add" ELSE IF kind = "update" THEN "edit" ELSE kind

\* The message of the failure is on the page: the page's error, or the
\* error of the mutation.
ErrorShown == error = "Error" \/ mutation.status = "error"

SelectedId ==
    CASE route = "categories" -> selectedCategory.id
      [] route = "products" -> selectedProduct
      [] route = "brands" -> selectedBrand
      [] OTHER -> 0

C25_PageIndexValid ==
    currentPage \in DOMAIN pageCache
        => 0 <= currentPage /\ currentPage <= Max(0, totalPages - 1)

\* C26: on the products page that loads in an effect, once no loadProducts
\* call is in flight the list shown is the answer to the current filters,
\* in whatever order the answers arrived; and while a call is in flight the
\* loading flag is set.
C26_LatestFiltersShown ==
    /\ productLoads = <<>> => products = <<effectFilters>>
    /\ productLoads # <<>> => productsLoading

\* C22: on the product edit form, whenever validation has blocked a
\* submission, every field that failed has its error shown under it; so for
\* each option of the status select the submission passes or shows an error.
C22_BlockedSubmitShowsErrors ==
    route = "edit" => formErrors \subseteq InlineErrorFields

\* C30: on the product edit page productService.create is called only with
\* data that passes the create schema (title and barcode not empty,
\* categoryId >= 1) and productService.update only with a numeric product
\* id, whatever the route parameter.
C30_ServiceCallsValidated ==
    [][(route = "edit" /\ ~isPending /\ isPending')
       => /\ mutation'.kind = "create" => createProductSchema(formValues) = {}
          /\ mutation'.kind = "update" =>
                 (productId.t = "number" /\ mutation'.id = productId.n)]_vars

====
